---- MODULE Spec2Model ----
(***************************************************************************)
(* The tracked-device registry of xrizer (src/input/devices.rs), the       *)
(* generic tracker built by dynamic discovery                              *)
(* (src/input/devices/generic_tracker.rs), the profile table               *)
(* (src/input/profiles.rs) with the rewrite tables and legal paths of the  *)
(* profiles (src/input/profiles/*.rs), and the registry readers of         *)
(* src/system.rs.                                                          *)
(*                                                                         *)
(* A device index is 0-based as in the code; the registry is a TLA+        *)
(* sequence, so the device at index i is devices[i + 1].                   *)
(***************************************************************************)
EXTENDS Integers, Sequences, FiniteSets, TLC

VARIABLES
    devices,    \* TrackedDeviceList.devices : Vec<TrackedDeviceContainer>
    ctor,       \* the constructor that built the registry: "default" or "new"
    ext,        \* OpenXrData.xdev_extension.is_some()
    last,       \* the last call made on the registry, its argument and result
    lock,       \* the registry's RwLock: the writer flag and the set of readers
    wpc,        \* position of the thread running create_generic_trackers
    wpre,       \* the registry when that thread took the write lock
    wpend,      \* the filtered xdevs it still has to turn into trackers
    seen,       \* what each reader observed under its read guard
    bind,       \* the binding translator: the profile, the bindings the
                \* manifest asks for and what became of them
    poll,       \* the PollNextEvent calls in flight: where each of them is
    events      \* the type of the last event written for each device

vars ==
    <<devices, ctor, ext, last, lock, wpc, wpre, wpend, seen, bind, poll, events>>

-----------------------------------------------------------------------------
(* Bounds of the model *)

\* longest registry that push is tried on
MaxPush == 4
\* longest device list the extension enumerates
MaxXdevs == 2
\* threads that read the registry while discovery runs
NumReaders == 2

\* the threads that call PollNextEvent at the same time
NumPollers == 2

-----------------------------------------------------------------------------
(* Constants of the program *)

\* tracked_device.rs: the indices 0..2 are reserved for HMD, left, right
RESERVED_DEVICE_INDECES == 3

-----------------------------------------------------------------------------
(* Strings are sequences of characters, so that to_lowercase and contains   *)
(* are computed and not assumed.                                            *)

UpperChars == <<"A","B","C","D","E","F","G","H","I","J","K","L","M",
                "N","O","P","Q","R","S","T","U","V","W","X","Y","Z">>
LowerChars == <<"a","b","c","d","e","f","g","h","i","j","k","l","m",
                "n","o","p","q","r","s","t","u","v","w","x","y","z">>

\* the lower-case letter of each upper-case ASCII letter
UpperToLower ==
    [c \in { UpperChars[i] : i \in 1..Len(UpperChars) } |->
        LowerChars[CHOOSE i \in 1..Len(UpperChars) : UpperChars[i] = c]]

\* char::to_lowercase on the ASCII range
ToLowerChar(c) == IF c \in DOMAIN UpperToLower THEN UpperToLower[c] ELSE c

\* str::to_lowercase
to_lowercase(s) == [i \in 1..Len(s) |-> ToLowerChar(s[i])]

\* str::contains(pat): pat occurs as a contiguous substring
contains(s, pat) ==
    \E i \in 1..(Len(s) - Len(pat) + 1) : SubSeq(s, i, i + Len(pat) - 1) = pat

\* the literal "tracker" of the discovery filter
TrackerPat == <<"t","r","a","c","k","e","r">>

-----------------------------------------------------------------------------
(* The profile table *)

\* InteractionProfile::profile_path of the profiles whose files are at hand
ProfilePath(profile) ==
    CASE profile = "ViveWands" -> "/interaction_profiles/htc/vive_controller"
      [] profile = "Knuckles" -> "/interaction_profiles/valve/index_controller"
      [] profile = "Touch" -> "/interaction_profiles/oculus/touch_controller"

\* profile_path of SimpleController and of ViveTracker: the runtime's paths of
\* the simple controller and of the vive tracker
OtherProfilePath(profile) ==
    CASE profile = "SimpleController" -> "/interaction_profiles/khr/simple_controller"
      [] profile = "ViveTracker" -> "/interaction_profiles/htc/vive_tracker_htcx"

\* Profiles::get().list, in registration order
ProfileList ==
    << [ctype |-> "ViveController", profile |-> "ViveWands",
        path |-> ProfilePath("ViveWands")],
       [ctype |-> "Knuckles", profile |-> "Knuckles",
        path |-> ProfilePath("Knuckles")],
       [ctype |-> "OculusTouch", profile |-> "Touch",
        path |-> ProfilePath("Touch")],
       [ctype |-> "ViveController", profile |-> "SimpleController",
        path |-> OtherProfilePath("SimpleController")],
       [ctype |-> "ViveTracker", profile |-> "ViveTracker",
        path |-> OtherProfilePath("ViveTracker")] >>

NoProfile == "None"

\* a lookup that stops one entry short of the end of the list
profile_from_name_skips_last(name) ==
    IF \E i \in 1..(Len(ProfileList) - 1) : ProfileList[i].path = name
    THEN LET i == CHOOSE k \in 1..(Len(ProfileList) - 1) :
                      /\ ProfileList[k].path = name
                      /\ \A j \in 1..(k - 1) : ProfileList[j].path # name
         IN ProfileList[i].profile
    ELSE NoProfile

\* Profiles::profile_from_name: the first entry whose path equals name
profile_from_name(name) ==
    IF \E i \in 1..Len(ProfileList) : ProfileList[i].path = name
    THEN LET i == CHOOSE k \in 1..Len(ProfileList) :
                      /\ ProfileList[k].path = name
                      /\ \A j \in 1..(k - 1) : ProfileList[j].path # name
         IN ProfileList[i].profile
    ELSE NoProfile

-----------------------------------------------------------------------------
(* Devices *)

NoSpace == "NoSpace"
NoString == << >>

\* BaseDevice::new(index, type): a device starts disconnected, with no
\* profile, and no connection reported for it
BaseDevice_new(index, type) ==
    [index |-> index, type |-> type, connected |-> FALSE, profile |-> NoProfile,
     last_connected_state |-> FALSE]

\* a TrackedDeviceContainer: the variant, its BaseDevice and the tracker's fields
Container(variant, base, space, name, serial) ==
    [variant |-> variant, index |-> base.index, type |-> base.type,
     connected |-> base.connected, profile |-> base.profile,
     last_connected_state |-> base.last_connected_state,
     space |-> space, name |-> name, serial |-> serial]

\* XrHMD::new().into()
XrHMD_new == Container("HMD", BaseDevice_new(0, "HMD"), NoSpace, NoString, NoString)

\* TrackedDeviceType::LeftHand as u32 = 1, RightHand = 2
HandIndex(hand) == IF hand = "LeftHand" THEN 1 ELSE 2

\* XrController::new(xr_instance, hand).into()
XrController_new(hand) ==
    Container("Controller", BaseDevice_new(HandIndex(hand), hand),
              NoSpace, NoString, NoString)

\* the constructor's checks without the assertion on the space
XrGenericTracker_new_asserts_index_only(index, dev) ==
    /\ index >= RESERVED_DEVICE_INDECES
    /\ profile_from_name("/interaction_profiles/htc/vive_tracker_htcx") # NoProfile

\* the two assertions and the unwrap of XrGenericTracker::new
XrGenericTracker_new_asserts(index, dev) ==
    /\ index >= RESERVED_DEVICE_INDECES
    /\ dev.space # NoSpace
    /\ profile_from_name("/interaction_profiles/htc/vive_tracker_htcx") # NoProfile

\* the constructor without the store of the connected flag
XrGenericTracker_new_disconnected(index, dev) ==
    LET base == BaseDevice_new(index, "GenericTracker")
        prof == profile_from_name("/interaction_profiles/htc/vive_tracker_htcx")
    IN Container("GenericTracker", [base EXCEPT !.profile = prof],
                 dev.space, dev.name, dev.serial)

\* XrGenericTracker::new(index, dev).into(), when its assertions hold
XrGenericTracker_new(index, dev) ==
    LET base == BaseDevice_new(index, "GenericTracker")
        prof == profile_from_name("/interaction_profiles/htc/vive_tracker_htcx")
    IN Container("GenericTracker",
                 [base EXCEPT !.profile = prof, !.connected = TRUE],
                 dev.space, dev.name, dev.serial)

-----------------------------------------------------------------------------
(* The devices the hardware-enumeration extension can report *)

ViveTrackerName == <<"V","i","v","e"," ","T","r","a","c","k","e","r">>
LowerTrackerName == <<"t","r","a","c","k","e","r">>
TrackingRefName == <<"T","r","a","c","k","i","n","g"," ","R","e","f">>
UpperTrackerName == <<"T","R","A","C","K","E","R">>

\* an Xdev: its optional space and its properties' name and serial
XdevUniverse ==
    << [id |-> 1, space |-> "space1", name |-> ViveTrackerName, serial |-> <<"L","H","R","-","1">>],
       [id |-> 2, space |-> "space2", name |-> LowerTrackerName, serial |-> <<"L","H","R","-","2">>],
       [id |-> 3, space |-> "space3", name |-> TrackingRefName, serial |-> <<"L","H","B","-","3">>],
       [id |-> 4, space |-> NoSpace, name |-> UpperTrackerName, serial |-> <<"L","H","R","-","4">>] >>

XdevIds == 1..Len(XdevUniverse)

\* the lists of distinct devices enumerate_xdevs can return, by id
RECURSIVE IdLists(_)
IdLists(n) ==
    IF n = 0 THEN { << >> }
    ELSE LET shorter == IdLists(n - 1)
         IN shorter \cup
            { Append(l, x) : l \in { k \in shorter : Len(k) = n - 1 }, x \in XdevIds }

Distinct(l) == \A i, j \in 1..Len(l) : i # j => l[i] # l[j]

Enumerations == { l \in IdLists(MaxXdevs) : Distinct(l) }

XdevsOf(l) == [i \in 1..Len(l) |-> XdevUniverse[l[i]]]

-----------------------------------------------------------------------------
(* The registry: TrackedDeviceList *)

\* TrackedDeviceList::default
TrackedDeviceList_default == << XrHMD_new >>

\* TrackedDeviceList::new
TrackedDeviceList_new ==
    << XrHMD_new, XrController_new("LeftHand"), XrController_new("RightHand") >>

\* Vec::push
push(devs, device) == Append(devs, device)

\* a truncate that keeps one element too many
truncate_one_more(devs, len) ==
    IF len + 1 >= Len(devs) THEN devs ELSE SubSeq(devs, 1, len + 1)

\* a truncate that drops nothing
truncate_keeps_all(devs, len) == devs

\* Vec::truncate: keeps the first len elements, no effect when len >= devs.len()
truncate(devs, len) ==
    IF len >= Len(devs) THEN devs ELSE SubSeq(devs, 1, len)

NoDevice == [variant |-> "None"]

\* slice::get_unchecked in the place of Vec::get: no bounds check, so an index
\* past the end reads outside the vector
VecGetUnchecked(devs, i) ==
    [ret |-> "Some",
     val |-> IF i < Len(devs) THEN devs[i + 1] ELSE NoDevice,
     oob |-> i >= Len(devs)]

\* Vec::get, the bounds-checked read of get_device: no read outside the vector
VecGet(devs, i) ==
    IF i < Len(devs)
    THEN [ret |-> "Some", val |-> devs[i + 1], oob |-> FALSE]
    ELSE [ret |-> "None", val |-> NoDevice, oob |-> FALSE]

\* TrackedDeviceList::get_device
get_device(devs, device_index) == VecGet(devs, device_index)

\* the filter without to_lowercase: a case-sensitive match
IsTrackerXdevCaseSensitive(device) ==
    /\ device.space # NoSpace
    /\ contains(device.name, TrackerPat)

\* the filter closure of create_generic_trackers
IsTrackerXdev(device) ==
    /\ device.space # NoSpace
    /\ contains(to_lowercase(device.name), TrackerPat)

\* the for_each of create_generic_trackers: one tracker per filtered xdev,
\* each at index self.len(); a failed assertion of the constructor panics
RECURSIVE PushTrackers(_, _)
PushTrackers(devs, xs) ==
    IF xs = << >> THEN [ret |-> "Ok", devices |-> devs]
    ELSE IF ~XrGenericTracker_new_asserts(Len(devs), Head(xs))
         THEN [ret |-> "Panic", devices |-> devs]
         ELSE PushTrackers(push(devs, XrGenericTracker_new(Len(devs), Head(xs))),
                           Tail(xs))

\* create_generic_trackers without the early return on a missing extension
create_generic_trackers_no_ext_check(devs, has_ext, enum) ==
    IF ~enum.ok THEN [ret |-> "Err", devices |-> devs]
    ELSE PushTrackers(truncate(devs, RESERVED_DEVICE_INDECES),
                      SelectSeq(enum.xdevs, IsTrackerXdev))

\* create_generic_trackers truncating before it enumerates
create_generic_trackers_truncate_first(devs, has_ext, enum) ==
    IF ~has_ext THEN [ret |-> "Ok", devices |-> devs]
    ELSE IF ~enum.ok
         THEN [ret |-> "Err", devices |-> truncate(devs, RESERVED_DEVICE_INDECES)]
         ELSE PushTrackers(truncate(devs, RESERVED_DEVICE_INDECES),
                           SelectSeq(enum.xdevs, IsTrackerXdev))

\* TrackedDeviceList::create_generic_trackers; enum is the result of
\* enumerate_xdevs: [ok |-> FALSE] or [ok |-> TRUE, xdevs |-> list]
create_generic_trackers(devs, has_ext, enum) ==
    IF ~has_ext THEN [ret |-> "Ok", devices |-> devs]
    ELSE IF ~enum.ok THEN [ret |-> "Err", devices |-> devs]
    ELSE LET filtered == SelectSeq(enum.xdevs, IsTrackerXdev)
         IN PushTrackers(truncate(devs, RESERVED_DEVICE_INDECES), filtered)

-----------------------------------------------------------------------------
(* Input paths.  A path is a sequence of characters; the words the profiles *)
(* and the manifests build their paths from:                                *)

w_user == <<"u","s","e","r">>
w_hand == <<"h","a","n","d">>
w_left == <<"l","e","f","t">>
w_right == <<"r","i","g","h","t">>
w_input == <<"i","n","p","u","t">>
w_output == <<"o","u","t","p","u","t">>
w_a == <<"a">>
w_b == <<"b">>
w_x == <<"x">>
w_y == <<"y">>
w_trigger == <<"t","r","i","g","g","e","r">>
w_thumbstick == <<"t","h","u","m","b","s","t","i","c","k">>
w_trackpad == <<"t","r","a","c","k","p","a","d">>
w_click == <<"c","l","i","c","k">>
w_touch == <<"t","o","u","c","h">>
w_squeeze == <<"s","q","u","e","e","z","e">>
w_value == <<"v","a","l","u","e">>
w_force == <<"f","o","r","c","e">>
w_grip == <<"g","r","i","p">>
w_pose == <<"p","o","s","e">>
w_aim == <<"a","i","m">>
w_haptic == <<"h","a","p","t","i","c">>
w_menu == <<"m","e","n","u">>
w_thumbrest == <<"t","h","u","m","b","r","e","s","t">>
w_pull == <<"p","u","l","l">>
w_grab == <<"g","r","a","b">>
w_application_menu == <<"a","p","p","l","i","c","a","t","i","o","n","_","m","e","n","u">>
w_joystick == <<"j","o","y","s","t","i","c","k">>

\* format!("{a}/{b}")
Slash(a, b) == a \o <<"/">> \o b

\* the words of a path joined by "/": <<input, grip, pose>> is input/grip/pose
RECURSIVE PathOf(_)
PathOf(ws) ==
    IF Len(ws) = 1 THEN ws[1]
    ELSE Slash(PathOf(SubSeq(ws, 1, Len(ws) - 1)), ws[Len(ws)])

\* format!("/user/hand/left/{p}") and format!("/user/hand/right/{p}")
HandWord(hand) == IF hand = "Left" THEN w_left ELSE w_right
HandPath(hand, p) ==
    <<"/">> \o Slash(PathOf(<<w_user, w_hand, HandWord(hand)>>), p)
Hands == { "Left", "Right" }
BothHands(ps) == { HandPath(h, p) : h \in Hands, p \in ps }

-----------------------------------------------------------------------------
(* The rewrite tables and the legal paths of the profiles *)

\* struct PathTranslation { from, to, stop }
PathTranslation(from, to, stop) == [from |-> from, to |-> to, stop |-> stop]

\* the Knuckles table with a stop on its input/grip rule
Knuckles_TRANSLATE_MAP_grip_stops ==
    << PathTranslation(w_pull, w_value, FALSE),
       PathTranslation(Slash(w_input, w_grip), Slash(w_input, w_squeeze), TRUE),
       PathTranslation(Slash(w_squeeze, w_click), Slash(w_squeeze, w_force), TRUE),
       PathTranslation(Slash(w_squeeze, w_grab), Slash(w_squeeze, w_force), TRUE),
       PathTranslation(Slash(w_trackpad, w_click), Slash(w_trackpad, w_force), TRUE) >>

\* Knuckles::TRANSLATE_MAP
Knuckles_TRANSLATE_MAP ==
    << PathTranslation(w_pull, w_value, FALSE),
       PathTranslation(Slash(w_input, w_grip), Slash(w_input, w_squeeze), FALSE),
       PathTranslation(Slash(w_squeeze, w_click), Slash(w_squeeze, w_force), TRUE),
       PathTranslation(Slash(w_squeeze, w_grab), Slash(w_squeeze, w_force), TRUE),
       PathTranslation(Slash(w_trackpad, w_click), Slash(w_trackpad, w_force), TRUE) >>

\* Touch::TRANSLATE_MAP
Touch_TRANSLATE_MAP ==
    << PathTranslation(Slash(w_trigger, w_click), Slash(w_trigger, w_value), TRUE),
       PathTranslation(Slash(w_grip, w_click), Slash(w_squeeze, w_value), TRUE),
       PathTranslation(Slash(w_trigger, w_pull), Slash(w_trigger, w_value), TRUE),
       PathTranslation(Slash(w_trigger, w_click), Slash(w_trigger, w_value), TRUE),
       PathTranslation(w_application_menu, w_menu, TRUE),
       PathTranslation(w_joystick, w_thumbstick, TRUE) >>

\* the wand table without its trigger/click rule
ViveWands_translate_map_keeps_click ==
    << PathTranslation(w_grip, w_squeeze, TRUE),
       PathTranslation(Slash(w_trigger, w_pull), Slash(w_trigger, w_value), TRUE),
       PathTranslation(w_application_menu, w_menu, TRUE) >>

\* ViveWands::translate_map
ViveWands_translate_map ==
    << PathTranslation(w_grip, w_squeeze, TRUE),
       PathTranslation(Slash(w_trigger, w_pull), Slash(w_trigger, w_value), TRUE),
       PathTranslation(Slash(w_trigger, w_click), Slash(w_trigger, w_value), TRUE),
       PathTranslation(w_application_menu, w_menu, TRUE) >>

\* Knuckles::legal_paths
Knuckles_legal_paths ==
    LET click_and_touch ==
            UNION { { Slash(p, w_click), Slash(p, w_touch) } :
                    p \in { Slash(w_input, w_a), Slash(w_input, w_b),
                            Slash(w_input, w_trigger),
                            Slash(w_input, w_thumbstick) } }
        x_and_y ==
            UNION { { Slash(p, w_x), Slash(p, w_y), p } :
                    p \in { Slash(w_input, w_thumbstick),
                            Slash(w_input, w_trackpad) } }
        misc == { PathOf(<<w_input, w_squeeze, w_value>>),
                  PathOf(<<w_input, w_squeeze, w_force>>),
                  PathOf(<<w_input, w_trigger, w_value>>),
                  PathOf(<<w_input, w_trackpad, w_force>>),
                  PathOf(<<w_input, w_trackpad, w_touch>>),
                  PathOf(<<w_input, w_grip, w_pose>>),
                  PathOf(<<w_input, w_aim, w_pose>>),
                  PathOf(<<w_output, w_haptic>>) }
    IN BothHands(click_and_touch \cup x_and_y \cup misc)

\* Touch's legal paths with menu/click on both hands
Touch_legal_paths_symmetric ==
    BothHands({ PathOf(<<w_input, w_menu, w_click>>),
                PathOf(<<w_input, w_squeeze, w_value>>),
                PathOf(<<w_input, w_trigger, w_value>>),
                PathOf(<<w_input, w_trigger, w_touch>>),
                PathOf(<<w_input, w_thumbstick>>),
                PathOf(<<w_input, w_thumbstick, w_x>>),
                PathOf(<<w_input, w_thumbstick, w_y>>),
                PathOf(<<w_input, w_thumbstick, w_click>>),
                PathOf(<<w_input, w_thumbstick, w_touch>>),
                PathOf(<<w_input, w_thumbrest, w_touch>>),
                PathOf(<<w_input, w_grip, w_pose>>),
                PathOf(<<w_input, w_aim, w_pose>>),
                PathOf(<<w_output, w_haptic>>) })
    \cup { HandPath("Left", PathOf(<<w_input, b, t>>)) :
             b \in { w_x, w_y }, t \in { w_click, w_touch } }
    \cup { HandPath("Right", PathOf(<<w_input, b, t>>)) :
             b \in { w_a, w_b }, t \in { w_click, w_touch } }

\* Touch::legal_paths
Touch_legal_paths ==
    LET left_only == { PathOf(<<w_input, w_x, w_click>>),
                       PathOf(<<w_input, w_x, w_touch>>),
                       PathOf(<<w_input, w_y, w_click>>),
                       PathOf(<<w_input, w_y, w_touch>>),
                       PathOf(<<w_input, w_menu, w_click>>) }
        right_only == { PathOf(<<w_input, w_a, w_click>>),
                        PathOf(<<w_input, w_a, w_touch>>),
                        PathOf(<<w_input, w_b, w_click>>),
                        PathOf(<<w_input, w_b, w_touch>>) }
        both == { PathOf(<<w_input, w_squeeze, w_value>>),
                  PathOf(<<w_input, w_trigger, w_value>>),
                  PathOf(<<w_input, w_trigger, w_touch>>),
                  PathOf(<<w_input, w_thumbstick>>),
                  PathOf(<<w_input, w_thumbstick, w_x>>),
                  PathOf(<<w_input, w_thumbstick, w_y>>),
                  PathOf(<<w_input, w_thumbstick, w_click>>),
                  PathOf(<<w_input, w_thumbstick, w_touch>>),
                  PathOf(<<w_input, w_thumbrest, w_touch>>),
                  PathOf(<<w_input, w_grip, w_pose>>),
                  PathOf(<<w_input, w_aim, w_pose>>),
                  PathOf(<<w_output, w_haptic>>) }
    IN { HandPath("Left", p) : p \in left_only }
       \cup { HandPath("Right", p) : p \in right_only }
       \cup BothHands(both)

\* ViveWands::legal_paths
ViveWands_legal_paths ==
    BothHands({ PathOf(<<w_input, w_squeeze, w_click>>),
                PathOf(<<w_input, w_menu, w_click>>),
                PathOf(<<w_input, w_trigger, w_click>>),
                PathOf(<<w_input, w_trigger, w_value>>),
                PathOf(<<w_input, w_trackpad>>),
                PathOf(<<w_input, w_trackpad, w_x>>),
                PathOf(<<w_input, w_trackpad, w_y>>),
                PathOf(<<w_input, w_trackpad, w_click>>),
                PathOf(<<w_input, w_trackpad, w_touch>>),
                PathOf(<<w_input, w_grip, w_pose>>),
                PathOf(<<w_input, w_aim, w_pose>>),
                PathOf(<<w_output, w_haptic>>) })

\* the profiles whose rewrite table and legal paths are at hand
BindProfiles == { "ViveWands", "Knuckles", "Touch" }

\* InteractionProfile::translate_map
translate_map(profile) ==
    CASE profile = "ViveWands" -> ViveWands_translate_map
      [] profile = "Knuckles" -> Knuckles_TRANSLATE_MAP
      [] profile = "Touch" -> Touch_TRANSLATE_MAP

\* InteractionProfile::legal_paths
legal_paths(profile) ==
    CASE profile = "ViveWands" -> ViveWands_legal_paths
      [] profile = "Knuckles" -> Knuckles_legal_paths
      [] profile = "Touch" -> Touch_legal_paths

NoBind == [pc |-> "idle"]

\* the threads that call PollNextEvent
Pollers == 1..NumPollers

\* a thread that is not inside PollNextEvent
Returned == [pc |-> "idle", i |-> 0, connected |-> FALSE, current_state |-> FALSE]

NoPoll == [p \in Pollers |-> Returned]

\* no event written for any device
NoEvents == << >>

-----------------------------------------------------------------------------
(* Calls on the registry, one action per call.  A panic ends the process.   *)

\* op: the call; ret: what it returned; arg: its index argument; val: the device
\* it returned; enum_ok, xs: what enumerate_xdevs returned to it; rep: the call
\* before it was the same call with the same enumeration result; pre_len: the
\* registry's length when create_generic_trackers was called
NoCall ==
    [op |-> "none", ret |-> "Unit", arg |-> 0, val |-> NoDevice,
     enum_ok |-> TRUE, xs |-> << >>, rep |-> FALSE, pre_len |-> 0]

Running == last.ret # "Panic"

Readers == 1..NumReaders

NoView == [set |-> FALSE, view |-> << >>]

Quiet == ~lock.writer /\ lock.readers = {} /\ wpc = "idle"

ConcUnchanged == UNCHANGED <<lock, wpc, wpre, wpend, seen, bind, poll, events>>

\* the devices a caller can construct and hand to push
PushInputs ==
    { XrHMD_new }
    \cup { XrGenericTracker_new(i, XdevUniverse[1]) :
             i \in { RESERVED_DEVICE_INDECES, RESERVED_DEVICE_INDECES + 1 } }

\* the indices get_device and truncate are tried with
IndexArgs == 0..(MaxPush + 2)

\* TrackedDeviceList::push(device)
Push ==
    /\ Running /\ Quiet
    /\ Len(devices) < MaxPush
    /\ \E device \in PushInputs :
         /\ devices' = push(devices, device)
         /\ last' = [NoCall EXCEPT !.op = "push"]
    /\ UNCHANGED <<ctor, ext>>
    /\ ConcUnchanged

\* TrackedDeviceList::truncate(len)
Truncate ==
    /\ Running /\ Quiet
    /\ \E len \in IndexArgs :
         /\ devices' = truncate(devices, len)
         /\ last' = [NoCall EXCEPT !.op = "truncate"]
    /\ UNCHANGED <<ctor, ext>>
    /\ ConcUnchanged

\* TrackedDeviceList::get_device(device_index)
GetDevice ==
    /\ Running /\ Quiet
    /\ \E i \in IndexArgs :
         LET r == get_device(devices, i)
         IN last' = [NoCall EXCEPT !.op = IF r.oob THEN "get_device_oob"
                                           ELSE "get_device",
                                   !.arg = i, !.ret = r.ret, !.val = r.val]
    /\ UNCHANGED <<devices, ctor, ext>>
    /\ ConcUnchanged

\* TrackedDeviceList::create_generic_trackers(xr_data), run as one call;
\* enumerate_xdevs fails or returns a list
CreateGenericTrackers ==
    /\ Running /\ Quiet
    /\ \E ok \in BOOLEAN, l \in Enumerations :
         /\ ~ok => l = << >>
         /\ ~ext => ok /\ l = << >>      \* enumerate_xdevs is not called
         /\ LET r == create_generic_trackers(
                         devices, ext, [ok |-> ok, xdevs |-> XdevsOf(l)])
            IN /\ devices' = r.devices
               /\ last' = [NoCall EXCEPT
                             !.op = "create", !.ret = r.ret,
                             !.enum_ok = ok, !.xs = l,
                             !.pre_len = Len(devices),
                             !.rep = /\ last.op = "create"
                                     /\ last.enum_ok = ok
                                     /\ last.xs = l]
    /\ UNCHANGED <<ctor, ext>>
    /\ ConcUnchanged

\* the registry after construction, with or without the extension
Init ==
    /\ ctor \in { "default", "new" }
    /\ devices = IF ctor = "default" THEN TrackedDeviceList_default
                                     ELSE TrackedDeviceList_new
    /\ ext \in BOOLEAN
    /\ last = NoCall
    /\ lock = [writer |-> FALSE, readers |-> {}]
    /\ wpc = "idle"
    /\ wpre = << >>
    /\ wpend = << >>
    /\ seen = [r \in Readers |-> NoView]
    /\ bind = NoBind
    /\ poll = NoPoll
    /\ events = NoEvents

Next ==
    \/ Push
    \/ Truncate
    \/ GetDevice
    \/ CreateGenericTrackers

Spec == Init /\ [][Next]_vars

-----------------------------------------------------------------------------
(* Discovery and readers as threads: create_generic_trackers step by step   *)
(* under the registry's RwLock, next to the readers of system.rs.           *)

\* a read guard taken whatever the writer does
CanReadUnlocked(l) == TRUE

\* RwLock::read succeeds only while no writer holds the lock
CanRead(l) == ~l.writer

\* RwLock::write, the only way to the &mut self of create_generic_trackers:
\* it succeeds only while nobody holds the lock
CanWrite(l) == ~l.writer /\ l.readers = {}

\* the thread takes the write guard and calls create_generic_trackers
WAcquire ==
    /\ wpc = "idle"
    /\ CanWrite(lock)
    /\ lock' = [lock EXCEPT !.writer = TRUE]
    /\ wpc' = "check"
    /\ wpre' = devices
    /\ UNCHANGED <<bind, poll, events, devices, ctor, ext, last, wpend, seen>>

\* if xr_data.xdev_extension.is_none() { return Ok(()) }
WCheckExt ==
    /\ wpc = "check"
    /\ wpc' = IF ext THEN "enumerate" ELSE "return"
    /\ UNCHANGED <<bind, poll, events, devices, ctor, ext, last, lock, wpre, wpend, seen>>

\* enumerate_xdevs(..)? and the filter
WEnumerate ==
    /\ wpc = "enumerate"
    /\ \/ /\ wpc' = "return"                      \* Err(e) is returned
          /\ UNCHANGED wpend
       \/ \E l \in Enumerations :
            /\ wpend' = SelectSeq(XdevsOf(l), IsTrackerXdev)
            /\ wpc' = "truncate"
    /\ UNCHANGED <<bind, poll, events, devices, ctor, ext, last, lock, wpre, seen>>

\* self.truncate(RESERVED_DEVICE_INDECES as usize)
WTruncate ==
    /\ wpc = "truncate"
    /\ devices' = truncate(devices, RESERVED_DEVICE_INDECES)
    /\ wpc' = "push"
    /\ UNCHANGED <<bind, poll, events, ctor, ext, last, lock, wpre, wpend, seen>>

\* one round of the for_each: build a tracker at index self.len(), push it
WPush ==
    /\ wpc = "push"
    /\ \/ /\ wpend = << >>
          /\ wpc' = "return"
          /\ UNCHANGED <<devices, wpend>>
       \/ /\ wpend # << >>
          /\ XrGenericTracker_new_asserts(Len(devices), Head(wpend))
          /\ devices' = push(devices, XrGenericTracker_new(Len(devices), Head(wpend)))
          /\ wpend' = Tail(wpend)
          /\ UNCHANGED wpc
       \/ /\ wpend # << >>
          /\ ~XrGenericTracker_new_asserts(Len(devices), Head(wpend))
          /\ wpc' = "panicked"        \* the guard is poisoned, never released
          /\ UNCHANGED <<devices, wpend>>
    /\ UNCHANGED <<bind, poll, events, ctor, ext, last, lock, wpre, seen>>

\* create_generic_trackers returns and the write guard is dropped
WRelease ==
    /\ wpc = "return"
    /\ lock' = [lock EXCEPT !.writer = FALSE]
    /\ wpc' = "idle"
    /\ wpend' = << >>
    /\ UNCHANGED <<bind, poll, events, devices, ctor, ext, last, wpre, seen>>

\* let devices = self.openxr.devices.read().unwrap()
RAcquire(r) ==
    /\ r \notin lock.readers
    /\ CanRead(lock)
    /\ lock' = [lock EXCEPT !.readers = @ \cup {r}]
    /\ UNCHANGED <<bind, poll, events, devices, ctor, ext, last, wpc, wpre, wpend, seen>>

\* the reader looks at the registry through its guard
RObserve(r) ==
    /\ r \in lock.readers
    /\ ~seen[r].set
    /\ seen' = [seen EXCEPT ![r] = [set |-> TRUE, view |-> devices]]
    /\ UNCHANGED <<bind, poll, events, devices, ctor, ext, last, lock, wpc, wpre, wpend>>

\* the reader returns and its guard is dropped
RRelease(r) ==
    /\ r \in lock.readers
    /\ lock' = [lock EXCEPT !.readers = @ \ {r}]
    /\ seen' = [seen EXCEPT ![r] = NoView]
    /\ UNCHANGED <<bind, poll, events, devices, ctor, ext, last, wpc, wpre, wpend>>

NextConc ==
    \/ WAcquire
    \/ WCheckExt
    \/ WEnumerate
    \/ WTruncate
    \/ WPush
    \/ WRelease
    \/ \E r \in Readers : RAcquire(r)
    \/ \E r \in Readers : RObserve(r)
    \/ \E r \in Readers : RRelease(r)

SpecConc == Init /\ [][NextConc]_vars

-----------------------------------------------------------------------------
(* The binding translator: every binding an action set asks for is          *)
(* rewritten by the profile's table, rule after rule, and the rewritten     *)
(* path is checked against the profile's legal paths.                       *)

\* bindings of one action set that the translator is tried on
MaxBindings == 2

\* str::find: the position of the first occurrence of pat in s, 0 for none
find(s, pat) ==
    IF contains(s, pat)
    THEN CHOOSE i \in 1..(Len(s) - Len(pat) + 1) :
             /\ SubSeq(s, i, i + Len(pat) - 1) = pat
             /\ \A j \in 1..(i - 1) : SubSeq(s, j, j + Len(pat) - 1) # pat
    ELSE 0

\* str::replace: every occurrence of from, left to right, becomes to
RECURSIVE replace(_, _, _)
replace(s, from, to) ==
    LET i == find(s, from)
    IN IF i = 0 \/ from = << >> THEN s
       ELSE SubSeq(s, 1, i - 1) \o to
            \o replace(SubSeq(s, i + Len(from), Len(s)), from, to)

\* the pass over the table from rule k on, as one function
RECURSIVE translate_from(_, _, _)
translate_from(map, k, path) ==
    IF k > Len(map) THEN path
    ELSE IF contains(path, map[k].from)
         THEN IF map[k].stop
              THEN replace(path, map[k].from, map[k].to)
              ELSE translate_from(map, k + 1,
                                  replace(path, map[k].from, map[k].to))
         ELSE translate_from(map, k + 1, path)

\* the rewritten path of a requested path under a profile
translate(profile, path) == translate_from(translate_map(profile), 1, path)

\* the translator at the first binding of an action set
BindStart(profile, reqs) ==
    [pc |-> "scan", profile |-> profile, reqs |-> reqs, i |-> 1,
     cur |-> reqs[1], k |-> 1, suggested |-> << >>, errors |-> << >>]

Scanning == bind.pc = "scan" /\ bind.k <= Len(translate_map(bind.profile))
CurrentRule == translate_map(bind.profile)[bind.k]

BindUnchanged ==
    UNCHANGED <<devices, ctor, ext, last, lock, wpc, wpre, wpend, seen,
                poll, events>>

\* a matching rule that never ends the pass
BRuleMatch_ignores_stop ==
    /\ Scanning
    /\ contains(bind.cur, CurrentRule.from)
    /\ bind' = [bind EXCEPT
                  !.cur = replace(@, CurrentRule.from, CurrentRule.to),
                  !.k = @ + 1]
    /\ BindUnchanged

\* the rule's from occurs in the path: it is replaced by to, and a rule
\* with stop set ends the pass
BRuleMatch ==
    /\ Scanning
    /\ contains(bind.cur, CurrentRule.from)
    /\ bind' = [bind EXCEPT
                  !.cur = replace(@, CurrentRule.from, CurrentRule.to),
                  !.k = @ + 1,
                  !.pc = IF CurrentRule.stop THEN "check" ELSE "scan"]
    /\ BindUnchanged

\* the rule's from does not occur in the path: on to the next rule
BRuleSkip ==
    /\ Scanning
    /\ ~contains(bind.cur, CurrentRule.from)
    /\ bind' = [bind EXCEPT !.k = @ + 1]
    /\ BindUnchanged

\* the table is exhausted
BScanEnd ==
    /\ bind.pc = "scan"
    /\ bind.k > Len(translate_map(bind.profile))
    /\ bind' = [bind EXCEPT !.pc = "check"]
    /\ BindUnchanged

\* the translator at the binding after the current one, or at the end
BindAdvance(b) ==
    IF b.i < Len(b.reqs)
    THEN [b EXCEPT !.pc = "scan", !.i = @ + 1, !.cur = b.reqs[b.i + 1], !.k = 1]
    ELSE [b EXCEPT !.pc = "done"]

\* the rewritten path is a legal path of the profile: it is suggested
BSuggest ==
    /\ bind.pc = "check"
    /\ bind.cur \in legal_paths(bind.profile)
    /\ bind' = BindAdvance([bind EXCEPT !.suggested = Append(@, bind.cur)])
    /\ BindUnchanged

\* an illegal path dropped without a word
BReject_drops_silently ==
    /\ bind.pc = "check"
    /\ bind.cur \notin legal_paths(bind.profile)
    /\ bind' = BindAdvance(bind)
    /\ BindUnchanged

\* the rewritten path is not a legal path: the binding is reported as a
\* binding error and skipped, and the translator goes on
BReject ==
    /\ bind.pc = "check"
    /\ bind.cur \notin legal_paths(bind.profile)
    /\ bind' = BindAdvance([bind EXCEPT
                  !.errors = Append(@, [binding |-> bind.i, path |-> bind.cur])])
    /\ BindUnchanged

NextBind ==
    \/ BRuleMatch
    \/ BRuleSkip
    \/ BScanEnd
    \/ BSuggest
    \/ BReject

\* legacy spellings that manifests use and that are no legal path as written
LegacyAliases ==
    { PathOf(<<w_input, w_grip, w_click>>),
      PathOf(<<w_input, w_grip, w_grab>>),
      PathOf(<<w_input, w_grip, w_pull>>),
      PathOf(<<w_input, w_squeeze, w_click>>),
      PathOf(<<w_input, w_squeeze, w_grab>>),
      PathOf(<<w_input, w_squeeze, w_pull>>),
      PathOf(<<w_input, w_trigger, w_pull>>),
      PathOf(<<w_input, w_trigger, w_click>>),
      PathOf(<<w_input, w_trackpad, w_click>>),
      PathOf(<<w_input, w_application_menu, w_click>>),
      PathOf(<<w_input, w_joystick>>),
      PathOf(<<w_input, w_joystick, w_x>>),
      PathOf(<<w_input, w_joystick, w_click>>) }

\* the same path on the other hand
Mirror(path) ==
    LET l == HandPath("Left", << >>)
        r == HandPath("Right", << >>)
    IN IF SubSeq(path, 1, Len(l)) = l
       THEN r \o SubSeq(path, Len(l) + 1, Len(path))
       ELSE l \o SubSeq(path, Len(r) + 1, Len(path))

\* the paths a manifest binding is drawn from: the legal paths of the three
\* profiles and the legacy spellings, each for either hand
ManifestPaths ==
    LET legal == Knuckles_legal_paths \cup Touch_legal_paths
                 \cup ViveWands_legal_paths
    IN legal \cup { Mirror(p) : p \in legal } \cup BothHands(LegacyAliases)

\* the registry next to the translator: full, and left alone
InitRegistryIdle ==
    /\ ctor = "new"
    /\ devices = TrackedDeviceList_new
    /\ ext = FALSE
    /\ last = NoCall
    /\ lock = [writer |-> FALSE, readers |-> {}]
    /\ wpc = "idle"
    /\ wpre = << >>
    /\ wpend = << >>
    /\ seen = [r \in Readers |-> NoView]
    /\ poll = NoPoll
    /\ events = NoEvents

\* one binding, any manifest path, any profile
InitTranslate ==
    /\ InitRegistryIdle
    /\ \E profile \in BindProfiles, path \in ManifestPaths :
         bind = BindStart(profile, <<path>>)

SpecTranslate == InitTranslate /\ [][NextBind]_vars

\* the bindings an action set is built from: legacy spellings and modern
\* paths, some of them legal for one hand or for one profile only
BindingUniverse ==
    { HandPath("Left", PathOf(<<w_input, w_application_menu, w_click>>)),
      HandPath("Right", PathOf(<<w_input, w_application_menu, w_click>>)),
      HandPath("Left", PathOf(<<w_input, w_grip, w_click>>)),
      HandPath("Right", PathOf(<<w_input, w_trigger, w_pull>>)),
      HandPath("Left", PathOf(<<w_input, w_grip, w_pose>>)),
      HandPath("Right", PathOf(<<w_input, w_a, w_click>>)),
      HandPath("Right", PathOf(<<w_input, w_trigger, w_click>>)),
      HandPath("Left", PathOf(<<w_input, w_trackpad, w_click>>)),
      HandPath("Left", PathOf(<<w_output, w_haptic>>)) }

\* the sequences over S of length 1..n
RECURSIVE SeqsUpTo(_, _)
SeqsUpTo(S, n) ==
    IF n = 0 THEN {}
    ELSE { <<x>> : x \in S }
         \cup SeqsUpTo(S, n - 1)
         \cup { Append(q, x) : q \in SeqsUpTo(S, n - 1), x \in S }

\* an action set of up to MaxBindings bindings, any profile
InitBind ==
    /\ InitRegistryIdle
    /\ \E profile \in BindProfiles, reqs \in SeqsUpTo(BindingUniverse, MaxBindings) :
         bind = BindStart(profile, reqs)

SpecBind == InitBind /\ [][NextBind]_vars

-----------------------------------------------------------------------------
(* The property queries of IVRSystem (src/system.rs).  The caller's err is  *)
(* an out-parameter: "Null" for a null pointer, or the value it holds.      *)

\* set_property_error!(err, value): written through err unless err is null
set_property_error(err, value) == IF err = "Null" THEN err ELSE value

\* Vec<u8> values of the properties, short enough to count their bytes
s_HMD == <<"H","M","D">>
s_xrizer == <<"x","r","i","z","e","r">>
s_NUL == <<"NUL">>

StringProps ==
    { "SerialNumber_String", "ManufacturerName_String",
      "ControllerType_String", "Invalid" }
Int32Props == { "ControllerRoleHint_Int32", "Invalid" }
FloatProps == { "DisplayFrequency_Float", "Invalid" }
BoolProps == { "DeviceIsWireless_Bool", "Invalid" }

\* the string a device has for a property, empty when it has none
StringValue(device, prop) ==
    CASE prop = "SerialNumber_String" ->
             IF device.variant = "GenericTracker" THEN device.serial
             ELSE IF device.variant = "HMD" THEN s_HMD
             ELSE IF device.type = "LeftHand" THEN w_left ELSE w_right
      [] prop = "ManufacturerName_String" -> s_xrizer
      [] prop = "ControllerType_String" ->
             IF device.variant = "HMD" THEN s_HMD
             ELSE IF device.variant = "GenericTracker" THEN TrackerPat
             ELSE w_grip
      [] OTHER -> << >>

\* TrackedDevice::get_string_property(prop, err): the value and Success, or
\* nothing and UnknownProperty
get_string_property(device, prop, err) ==
    LET v == StringValue(device, prop)
    IN [val |-> v,
        err |-> set_property_error(err, IF v = << >> THEN "UnknownProperty"
                                                     ELSE "Success")]

\* TrackedDevice::get_int32_property(prop, err)
get_int32_property(device, prop, err) ==
    IF prop = "ControllerRoleHint_Int32" /\ device.variant = "Controller"
    THEN [val |-> HandIndex(device.type), err |-> set_property_error(err, "Success")]
    ELSE [val |-> 0, err |-> set_property_error(err, "UnknownProperty")]

\* TrackedDevice::get_float_property(prop, err, system)
get_float_property(device, prop, err) ==
    IF prop = "DisplayFrequency_Float" /\ device.variant = "HMD"
    THEN [val |-> 90, err |-> set_property_error(err, "Success")]
    ELSE [val |-> 0, err |-> set_property_error(err, "UnknownProperty")]

\* TrackedDevice::get_bool_property(prop, err)
get_bool_property(device, prop, err) ==
    IF prop = "DeviceIsWireless_Bool" /\ device.variant # "HMD"
    THEN [val |-> TRUE, err |-> set_property_error(err, "Success")]
    ELSE [val |-> FALSE, err |-> set_property_error(err, "UnknownProperty")]

\* what a query hands back: the return value, the caller's err after the
\* call and what was written to the caller's buffer
Answer(ret, err, buf) == [ret |-> ret, err |-> err, buf |-> buf]

\* the handler counting the value's bytes without the terminating NUL
GetStringTrackedDeviceProperty_no_nul(devs, device_index, prop, size, err) ==
    LET device == get_device(devs, device_index)
    IN IF device.ret = "None"
       THEN Answer(0, set_property_error(err, "InvalidDevice"), << >>)
       ELSE IF ~device.val.connected
       THEN Answer(0, set_property_error(err, "InvalidDevice"), << >>)
       ELSE LET r == get_string_property(device.val, prop, err)
                data == r.val
            IN IF r.val = << >> THEN Answer(0, r.err, << >>)
               ELSE IF size < Len(data)
                    THEN Answer(Len(data),
                                set_property_error(r.err, "BufferTooSmall"), << >>)
                    ELSE Answer(Len(data), r.err, data)

\* System::GetStringTrackedDeviceProperty; size = 0 stands for a null buffer
\* as well
GetStringTrackedDeviceProperty(devs, device_index, prop, size, err) ==
    LET device == get_device(devs, device_index)
    IN IF device.ret = "None"
       THEN Answer(0, set_property_error(err, "InvalidDevice"), << >>)
       ELSE IF ~device.val.connected
       THEN Answer(0, set_property_error(err, "InvalidDevice"), << >>)
       ELSE LET r == get_string_property(device.val, prop, err)
                data == r.val \o s_NUL
            IN IF r.val = << >> THEN Answer(0, r.err, << >>)
               ELSE IF size < Len(data)
                    THEN Answer(Len(data),
                                set_property_error(r.err, "BufferTooSmall"), << >>)
                    ELSE Answer(Len(data), r.err, data)

\* System::IsTrackedDeviceConnected
IsTrackedDeviceConnected(devs, device_index) ==
    LET dev == get_device(devs, device_index)
    IN IF dev.ret = "Some" THEN dev.val.connected ELSE FALSE

\* System::GetUint64TrackedDeviceProperty: InvalidDevice is written for a
\* device that is not connected, and UnknownProperty is written after it in
\* every case
GetUint64TrackedDeviceProperty(devs, device_index, prop, err) ==
    LET err1 == IF ~IsTrackedDeviceConnected(devs, device_index)
                THEN set_property_error(err, "InvalidDevice")
                ELSE err
    IN Answer(0, set_property_error(err1, "UnknownProperty"), << >>)

\* GetInt32TrackedDeviceProperty without the test of connected()
GetInt32TrackedDeviceProperty_unchecked(devs, device_index, prop, err) ==
    LET device == get_device(devs, device_index)
    IN IF device.ret = "Some"
       THEN LET r == get_int32_property(device.val, prop, err)
            IN Answer(r.val, r.err, << >>)
       ELSE Answer(0, err, << >>)

\* System::GetInt32TrackedDeviceProperty: err is left alone when there is no
\* device at the index
GetInt32TrackedDeviceProperty(devs, device_index, prop, err) ==
    LET device == get_device(devs, device_index)
    IN IF device.ret = "Some"
       THEN IF ~device.val.connected
            THEN Answer(0, set_property_error(err, "InvalidDevice"), << >>)
            ELSE LET r == get_int32_property(device.val, prop, err)
                 IN Answer(r.val, r.err, << >>)
       ELSE Answer(0, err, << >>)

\* System::GetFloatTrackedDeviceProperty
GetFloatTrackedDeviceProperty(devs, device_index, prop, err) ==
    LET device == get_device(devs, device_index)
    IN IF device.ret = "Some"
       THEN IF ~device.val.connected
            THEN Answer(0, set_property_error(err, "InvalidDevice"), << >>)
            ELSE LET r == get_float_property(device.val, prop, err)
                 IN Answer(r.val, r.err, << >>)
       ELSE Answer(0, err, << >>)

\* System::GetBoolTrackedDeviceProperty
GetBoolTrackedDeviceProperty(devs, device_index, prop, err) ==
    LET device == get_device(devs, device_index)
    IN IF device.ret = "Some"
       THEN IF ~device.val.connected
            THEN Answer(FALSE, set_property_error(err, "InvalidDevice"), << >>)
            ELSE LET r == get_bool_property(device.val, prop, err)
                 IN Answer(r.val, r.err, << >>)
       ELSE Answer(FALSE, err, << >>)

\* what the caller's err holds before the call, and the buffers it brings
ErrIns == { "Null", "Success", "BufferTooSmall" }
BufSizes == { 0, 4, 8 }

\* the indices a caller asks about: those of the registry and one past its end
Indices == 0..Len(devices)

\* a query, its arguments and its answer, as the last call
Query(op, i, prop, size, err, answer) ==
    [op |-> op, arg |-> i, prop |-> prop, size |-> size, err0 |-> err,
     ret |-> answer.ret, err |-> answer.err, buf |-> answer.buf]

SysUnchanged ==
    UNCHANGED <<ctor, ext, lock, wpc, wpre, wpend, seen, bind, poll, events>>

\* the process runs until a panic or a fault ends it
Up == ~(last.op \in { "get_pose", "get_controller" }
          /\ last.ret \in { "Panic", "Fault" })

\* BaseDevice::set_connected(connected) on the device at index i
SetConnected ==
    /\ Up
    /\ \E i \in 0..(Len(devices) - 1), connected \in BOOLEAN :
         /\ devices' = [devices EXCEPT ![i + 1].connected = connected]
         /\ last' = [op |-> "set_connected", arg |-> i, val |-> connected,
                     ret |-> "Unit"]
    /\ SysUnchanged

GetStringProp ==
    /\ \E i \in Indices, prop \in StringProps, size \in BufSizes, err \in ErrIns :
         last' = Query("GetString", i, prop, size, err,
                       GetStringTrackedDeviceProperty(devices, i, prop, size, err))
    /\ UNCHANGED devices
    /\ SysUnchanged

GetUint64Prop ==
    /\ \E i \in Indices, err \in ErrIns :
         last' = Query("GetUint64", i, "Invalid", 0, err,
                       GetUint64TrackedDeviceProperty(devices, i, "Invalid", err))
    /\ UNCHANGED devices
    /\ SysUnchanged

GetInt32Prop ==
    /\ \E i \in Indices, prop \in Int32Props, err \in ErrIns :
         last' = Query("GetInt32", i, prop, 0, err,
                       GetInt32TrackedDeviceProperty(devices, i, prop, err))
    /\ UNCHANGED devices
    /\ SysUnchanged

GetFloatProp ==
    /\ \E i \in Indices, prop \in FloatProps, err \in ErrIns :
         last' = Query("GetFloat", i, prop, 0, err,
                       GetFloatTrackedDeviceProperty(devices, i, prop, err))
    /\ UNCHANGED devices
    /\ SysUnchanged

GetBoolProp ==
    /\ \E i \in Indices, prop \in BoolProps, err \in ErrIns :
         last' = Query("GetBool", i, prop, 0, err,
                       GetBoolTrackedDeviceProperty(devices, i, prop, err))
    /\ UNCHANGED devices
    /\ SysUnchanged

\* the registries a session runs with: the single HMD, the full registry,
\* and the full registry after discovery found one tracker
SysRegistries ==
    { TrackedDeviceList_default, TrackedDeviceList_new,
      create_generic_trackers(TrackedDeviceList_new, TRUE,
          [ok |-> TRUE, xdevs |-> XdevsOf(<<1>>)]).devices }

InitSys ==
    /\ devices \in SysRegistries
    /\ ctor = IF devices = TrackedDeviceList_default THEN "default" ELSE "new"
    /\ ext = (Len(devices) > RESERVED_DEVICE_INDECES)
    /\ last = NoCall
    /\ lock = [writer |-> FALSE, readers |-> {}]
    /\ wpc = "idle"
    /\ wpre = << >>
    /\ wpend = << >>
    /\ seen = [r \in Readers |-> NoView]
    /\ bind = NoBind
    /\ poll = NoPoll
    /\ events = NoEvents

NextSys ==
    \/ SetConnected
    \/ GetStringProp
    \/ GetUint64Prop
    \/ GetInt32Prop
    \/ GetFloatProp
    \/ GetBoolProp

SpecSys == InitSys /\ [][NextSys]_vars

-----------------------------------------------------------------------------
(* The pose of a generic tracker (src/input/devices/generic_tracker.rs) *)

\* vr::ETrackingUniverseOrigin
Origins == { "Seated", "Standing", "RawAndUncalibrated" }

\* what xr::Space::relate gives: an error of the runtime, or a location and
\* a velocity, tracked or not
RelateResults ==
    { [ok |-> FALSE, tracked |-> FALSE], [ok |-> TRUE, tracked |-> FALSE],
      [ok |-> TRUE, tracked |-> TRUE] }

\* vr::space_relation_to_openvr_pose(location, velocity)
space_relation_to_openvr_pose(space, origin, relation) ==
    [space |-> space, origin |-> origin, bPoseIsValid |-> relation.tracked]

\* XrGenericTracker::get_pose: relate(..).unwrap(), then Some(pose)
get_pose(device, origin, relation) ==
    IF relation.ok
    THEN [ret |-> "Some",
          pose |-> space_relation_to_openvr_pose(device.space, origin, relation)]
    ELSE [ret |-> "Panic", pose |-> << >>]

\* get_pose on the generic tracker at index i
GetPose ==
    /\ Up
    /\ \E i \in 0..(Len(devices) - 1), origin \in Origins,
          relation \in RelateResults :
         /\ devices[i + 1].variant = "GenericTracker"
         /\ LET r == get_pose(devices[i + 1], origin, relation)
            IN last' = [op |-> "get_pose", arg |-> i, origin |-> origin,
                        relation |-> relation, ret |-> r.ret, pose |-> r.pose]
    /\ UNCHANGED devices
    /\ SysUnchanged

\* what a read past the end of the vector can find there: bytes that look
\* like a device of some variant, or no mapped memory at all
PastTheEnd ==
    { [variant |-> v, index |-> 0, type |-> v, connected |-> FALSE,
       profile |-> NoProfile, last_connected_state |-> FALSE,
       space |-> NoSpace, name |-> NoString,
       serial |-> NoString] : v \in { "HMD", "Controller", "GenericTracker" } }
    \cup { [variant |-> "Unmapped"] }

\* TrackedDeviceList::get_device_unchecked: Vec::get_unchecked, undefined
\* for an index past the end; the set of what it can hand back
get_device_unchecked(devs, device_index) ==
    IF device_index < Len(devs)
    THEN { [val |-> devs[device_index + 1], oob |-> FALSE] }
    ELSE { [val |-> g, oob |-> TRUE] : g \in PastTheEnd }

\* TrackedDeviceList::get_controller(hand): the set of its outcomes
get_controller(devs, hand) ==
    IF hand \notin { "LeftHand", "RightHand" }
    THEN { [ret |-> "Panic", val |-> NoDevice, oob |-> FALSE] }
    ELSE { IF o.val.variant = "Unmapped"
           THEN [ret |-> "Fault", val |-> NoDevice, oob |-> o.oob]
           ELSE IF o.val.variant = "Controller"
           THEN [ret |-> "Some", val |-> o.val, oob |-> o.oob]
           ELSE [ret |-> "Panic", val |-> NoDevice, oob |-> o.oob] :
           o \in get_device_unchecked(devs, HandIndex(hand)) }

\* get_controller, as GetTrackedDeviceIndexForControllerRole and the other
\* callers make it
GetController ==
    /\ Up
    /\ \E hand \in { "LeftHand", "RightHand", "HMD" } :
         \E r \in get_controller(devices, hand) :
            last' = [op |-> "get_controller", hand |-> hand, ret |-> r.ret,
                     val |-> r.val, oob |-> r.oob]
    /\ UNCHANGED devices
    /\ SysUnchanged

\* the single HMD, and the full registry after discovery, whatever the
\* extension enumerated
PoseRegistries ==
    { TrackedDeviceList_default }
    \cup { create_generic_trackers(TrackedDeviceList_new, TRUE,
              [ok |-> TRUE, xdevs |-> XdevsOf(l)]).devices : l \in Enumerations }

InitPose ==
    /\ devices \in PoseRegistries
    /\ ctor = IF devices = TrackedDeviceList_default THEN "default" ELSE "new"
    /\ ext = TRUE
    /\ last = NoCall
    /\ lock = [writer |-> FALSE, readers |-> {}]
    /\ wpc = "idle"
    /\ wpre = << >>
    /\ wpend = << >>
    /\ seen = [r \in Readers |-> NoView]
    /\ bind = NoBind
    /\ poll = NoPoll
    /\ events = NoEvents

NextPose ==
    \/ SetConnected
    \/ GetPose
    \/ GetController

SpecPose == InitPose /\ [][NextPose]_vars

-----------------------------------------------------------------------------
(* Properties of the registry *)

Min(a, b) == IF a < b THEN a ELSE b

\* the devices of XdevUniverse that have a space and whose name contains
\* "tracker" in some mix of cases: "Vive Tracker" and "tracker"; "Tracking Ref"
\* does not contain it and "TRACKER" has no space
MatchingIds == { 1, 2 }

Survivors(l) == SelectSeq(l, LAMBDA i : i \in MatchingIds)

\* the generic tracker that discovery must build at index i from xdev x
ExpectedTracker(i, x) ==
    [variant |-> "GenericTracker", index |-> i, type |-> "GenericTracker",
     connected |-> TRUE, profile |-> "ViveTracker",
     last_connected_state |-> FALSE,
     space |-> x.space, name |-> x.name, serial |-> x.serial]

IsFull(devs) ==
    /\ Len(devs) >= RESERVED_DEVICE_INDECES
    /\ devs[1].variant = "HMD"
    /\ devs[2].variant = "Controller" /\ devs[2].type = "LeftHand"
    /\ devs[3].variant = "Controller" /\ devs[3].type = "RightHand"

\* a step that is a call of create_generic_trackers with the extension
\* present and a successful enumeration
Discovered == last'.op = "create" /\ ext /\ last'.enum_ok

\* C1: in every reachable registry state, for every index i < len() the
\* device returned by get_device(i) reports a device index equal to i.
C1_IndexIsPosition ==
    \A i \in 0..(Len(devices) - 1) :
        /\ get_device(devices, i).ret = "Some"
        /\ get_device(devices, i).val.index = i

\* C2: for every index i >= len(), get_device(i) returns None and reads
\* nothing outside the backing vector.
C2_NotFoundPastEnd ==
    (last.op \in { "get_device", "get_device_oob" } /\ last.arg >= Len(devices))
        => (last.op = "get_device" /\ last.ret = "None" /\ last.val = NoDevice)

C2_Witness ==
    /\ last.op = "get_device"
    /\ last.arg >= Len(devices)
    /\ last.ret = "None"
    /\ Len(devices) > RESERVED_DEVICE_INDECES

\* C3: in every reachable registry state the device at index 0 is the HMD
\* and, when the registry was built by new, index 1 holds the left-hand
\* controller and index 2 the right-hand controller.
C3_ReservedSlotsKept ==
    /\ Len(devices) >= 1
    /\ devices[1].variant = "HMD"
    /\ ctor = "new" => IsFull(devices)

\* C4: create_generic_trackers run twice in a row with the same enumeration
\* result ends the same way and leaves the registry (length, tracker indices,
\* name, serial, profile, connected flag) as the first run left it.
C4_Idempotent ==
    [][ (last'.op = "create" /\ last'.rep)
            => (devices' = devices /\ last'.ret = last.ret) ]_vars

C4_Witness ==
    /\ last.op = "create" /\ last.rep /\ last.ret = "Ok"
    /\ ext /\ last.enum_ok
    /\ Len(devices) = RESERVED_DEVICE_INDECES + 2

\* C5: with the extension present and no enumerated device
\* passing the filter, create_generic_trackers succeeds and leaves the
\* registry with exactly the three reserved indices.
C5_LeavesThreeDevices ==
    (last.op = "create" /\ ext /\ last.enum_ok /\ Survivors(last.xs) = << >>)
        => (last.ret = "Ok" /\ Len(devices) = RESERVED_DEVICE_INDECES)

\* What the call does there: it succeeds and leaves the registry's first
\* min(len, 3) devices, unchanged, and nothing else: three devices when it
\* held at least three, and a shorter registry as it was.
TruncatesToReserved ==
    [][ (Discovered /\ Survivors(last'.xs) = << >>)
            => /\ last'.ret = "Ok"
               /\ Len(devices') = Min(Len(devices), RESERVED_DEVICE_INDECES)
               /\ devices' = SubSeq(devices, 1, Len(devices')) ]_vars

TruncatesWitness ==
    /\ last.op = "create" /\ ext /\ last.enum_ok /\ last.ret = "Ok"
    /\ last.xs # << >> /\ Survivors(last.xs) = << >>
    /\ last.pre_len > RESERVED_DEVICE_INDECES
    /\ Len(devices) = RESERVED_DEVICE_INDECES

\* C6: a reader holding the shared lock sees the complete registry of before
\* the refresh or the complete registry of after it: no refresh is between
\* its steps while a read guard is held, and what a reader saw is the
\* registry as it stands (or, were a refresh running, as it stood before it).
C6_NoIntermediateState ==
    /\ lock.readers # {} => wpc = "idle"
    /\ \A r \in Readers :
         seen[r].set =>
            seen[r].view = (IF wpc = "idle" THEN devices ELSE wpre)

C6_Witness ==
    \E r \in Readers :
        /\ seen[r].set
        /\ seen[r].view = devices
        /\ Len(wpre) > RESERVED_DEVICE_INDECES
        /\ Len(devices) > RESERVED_DEVICE_INDECES
        /\ wpre # devices

\* C7: a successful create_generic_trackers on a full registry leaves the
\* three reserved devices followed by one generic tracker per surviving
\* enumerated device, at indices 3, 4, ... in enumeration order, connected
\* and with the vive-tracker profile; no earlier tracker remains.
C7_ReplacesTrackers ==
    [][ (Discovered /\ last'.ret = "Ok" /\ IsFull(devices))
            => LET want == Survivors(last'.xs)
               IN devices' =
                    SubSeq(devices, 1, RESERVED_DEVICE_INDECES) \o
                    [k \in 1..Len(want) |->
                        ExpectedTracker(RESERVED_DEVICE_INDECES + k - 1,
                                        XdevUniverse[want[k]])] ]_vars

C7_Witness ==
    /\ last.op = "create" /\ ext /\ last.enum_ok /\ last.ret = "Ok"
    /\ last.xs = << 2, 1 >>
    /\ last.pre_len > RESERVED_DEVICE_INDECES
    /\ IsFull(devices)
    /\ Len(devices) = RESERVED_DEVICE_INDECES + 2

\* C8: create_generic_trackers turns an enumerated device into a generic
\* tracker if and only if the device has a space and its lower-cased name
\* contains "tracker"; every other enumerated device is ignored: the devices
\* the call adds are the enumerated devices that pass, one tracker each.
C8_TrackerIffSpaceAndName ==
    [][ Discovered
            => LET base == Min(Len(devices), RESERVED_DEVICE_INDECES)
                   made == SubSeq(devices', base + 1, Len(devices'))
                   want == Survivors(last'.xs)
               IN /\ Len(made) = Len(want)
                  /\ \A k \in 1..Len(want) :
                       /\ made[k].variant = "GenericTracker"
                       /\ made[k].serial = XdevUniverse[want[k]].serial
                       /\ made[k].space = XdevUniverse[want[k]].space
                       /\ made[k].name = XdevUniverse[want[k]].name ]_vars

\* The filter where the call returns: the devices a returning call adds are
\* the enumerated devices that pass the filter, and a call that does not
\* return found such a device and panicked in the tracker's constructor.
FilterWhereTheCallReturns ==
    [][ Discovered
            => LET base == Min(Len(devices), RESERVED_DEVICE_INDECES)
                   made == SubSeq(devices', base + 1, Len(devices'))
                   want == Survivors(last'.xs)
               IN IF last'.ret = "Ok"
                  THEN /\ Len(made) = Len(want)
                       /\ \A k \in 1..Len(want) :
                            /\ made[k].variant = "GenericTracker"
                            /\ made[k].serial = XdevUniverse[want[k]].serial
                            /\ made[k].space = XdevUniverse[want[k]].space
                            /\ made[k].name = XdevUniverse[want[k]].name
                  ELSE last'.ret = "Panic" /\ want # << >> ]_vars

FilterWitness ==
    /\ last.op = "create" /\ ext /\ last.enum_ok /\ last.ret = "Ok"
    /\ last.xs = << 4, 1 >>
    /\ Len(devices) = RESERVED_DEVICE_INDECES + 1
    /\ devices[RESERVED_DEVICE_INDECES + 1].name = ViveTrackerName

\* C9: without the extension create_generic_trackers returns success and
\* leaves the registry unchanged: its length, every device, every connection
\* flag, the generic trackers it already holds.
C9_NoExtensionNoOp ==
    [][ (last'.op = "create" /\ ~ext)
            => (last'.ret = "Ok" /\ devices' = devices) ]_vars

C9_Witness ==
    /\ last.op = "create" /\ ~ext /\ last.ret = "Ok"
    /\ Len(devices) > RESERVED_DEVICE_INDECES
    /\ devices[Len(devices)].variant = "GenericTracker"

\* C10: create_generic_trackers returns an error exactly when the enumeration
\* call fails, and then the registry is as it was before the call; an
\* enumeration in which no device passes the filter is a success.
C10_ErrorOnlyFromEnumeration ==
    [][ (last'.op = "create")
            => /\ last'.ret = "Err" <=> (ext /\ ~last'.enum_ok)
               /\ last'.ret = "Err" => devices' = devices
               /\ (ext /\ last'.enum_ok /\ Survivors(last'.xs) = << >>)
                      => last'.ret = "Ok" ]_vars

C10_Witness ==
    /\ last.op = "create" /\ last.ret = "Err" /\ ~last.enum_ok
    /\ last.pre_len > RESERVED_DEVICE_INDECES
    /\ Len(devices) = last.pre_len

-----------------------------------------------------------------------------
(* Properties of the binding translator *)

\* the positions at which pat occurs in s
Occurrences(s, pat) ==
    { i \in 1..(Len(s) - Len(pat) + 1) : SubSeq(s, i, i + Len(pat) - 1) = pat }

\* s with the occurrence of from at position i replaced by to
ReplacedAt(s, i, from, to) ==
    SubSeq(s, 1, i - 1) \o to \o SubSeq(s, i + Len(from), Len(s))

\* the binding the translator is at
Requested == bind.reqs[bind.i]

\* C11: translation is one forward pass over the profile's table in
\* declaration order.  Every step of the pass looks at the next rule and at
\* no earlier one; a rule whose from occurs in the current path replaces it
\* with to, and ends the pass if its stop is set and hands the result to the
\* later rules if not; a rule that does not match leaves the path as it is.
\* The path that reaches the legality check is the requested path itself
\* when no rule's from occurs in it, and in every case a function of the
\* profile and the requested path (which names the hand).
C11_SingleForwardPass ==
    /\ [][ bind.pc = "scan" =>
             LET map == translate_map(bind.profile)
                 k == bind.k
             IN IF k > Len(map)
                THEN bind'.pc = "check" /\ bind'.cur = bind.cur
                ELSE /\ bind'.k = k + 1
                     /\ LET occ == Occurrences(bind.cur, map[k].from)
                        IN IF occ # {}
                           THEN /\ \A i \in occ :
                                     Cardinality(occ) = 1 =>
                                       bind'.cur = ReplacedAt(bind.cur, i,
                                                     map[k].from, map[k].to)
                                /\ bind'.cur # bind.cur
                                /\ bind'.pc = IF map[k].stop THEN "check"
                                                             ELSE "scan"
                           ELSE bind'.cur = bind.cur /\ bind'.pc = "scan" ]_vars
    /\ [](bind.pc = "check" =>
             /\ bind.cur = translate(bind.profile, Requested)
             /\ (\A k \in 1..Len(translate_map(bind.profile)) :
                    Occurrences(Requested, translate_map(bind.profile)[k].from) = {})
                  => bind.cur = Requested)

\* a non-stopping rule (pull -> value) matched, a later rule (input/grip ->
\* input/squeeze) rewrote its result, and the pass ran to the end of the table
C11_Witness ==
    /\ bind.pc = "check"
    /\ bind.profile = "Knuckles"
    /\ Requested = HandPath("Left", PathOf(<<w_input, w_grip, w_pull>>))
    /\ bind.cur = HandPath("Left", PathOf(<<w_input, w_squeeze, w_value>>))
    /\ bind.k = Len(Knuckles_TRANSLATE_MAP) + 1

\* C12: the legal paths of a profile are closed under its rewrite table: the
\* translation of a legal path of the profile is a legal path of the profile.
C12_LegalSetClosed ==
    (bind.pc = "check" /\ Requested \in legal_paths(bind.profile))
        => bind.cur \in legal_paths(bind.profile)

\* where the legal paths are closed: the rewritten form of a legal path of
\* Touch is a legal path of Touch
TouchLegalSetClosed ==
    (bind.pc = "check" /\ bind.profile = "Touch"
       /\ Requested \in legal_paths(bind.profile))
        => bind.cur \in legal_paths(bind.profile)

\* the bindings before the one the translator is at; all of them at the end
Settled == IF bind.pc = "done" THEN Len(bind.reqs) ELSE bind.i - 1

\* the bindings among the first n whose rewritten path is legal, or is not
LegalAmong(n, legal) ==
    SelectSeq([j \in 1..n |-> j],
              LAMBDA j : (translate(bind.profile, bind.reqs[j])
                            \in legal_paths(bind.profile)) = legal)

\* C13: a binding whose rewritten path is not a legal path of the profile is
\* a binding error of that one binding: it is reported, with its rewritten
\* path, and it is never suggested, while every other binding of the action
\* set, before and after it, is translated and suggested.  At every moment
\* the suggestions are the rewritten paths of the legal bindings settled so
\* far, in order, and the errors are the illegal ones, in order.
C13_BindingErrorReported ==
    bind.pc # "idle" =>
        LET good == LegalAmong(Settled, TRUE)
            bad == LegalAmong(Settled, FALSE)
        IN /\ bind.suggested
                = [n \in 1..Len(good) |-> translate(bind.profile, bind.reqs[good[n]])]
           /\ bind.errors
                = [n \in 1..Len(bad) |->
                     [binding |-> bad[n],
                      path |-> translate(bind.profile, bind.reqs[bad[n]])]]
           /\ \A n \in 1..Len(bind.suggested) :
                bind.suggested[n] \in legal_paths(bind.profile)

\* Touch, an action set asking for application_menu/click on the right hand
\* and then on the left: the first is reported, the second is suggested
C13_Witness ==
    /\ bind.pc = "done"
    /\ bind.profile = "Touch"
    /\ bind.reqs = << HandPath("Right", PathOf(<<w_input, w_application_menu, w_click>>)),
                      HandPath("Left", PathOf(<<w_input, w_application_menu, w_click>>)) >>
    /\ bind.errors = << [binding |-> 1,
                         path |-> HandPath("Right", PathOf(<<w_input, w_menu, w_click>>))] >>
    /\ bind.suggested = << HandPath("Left", PathOf(<<w_input, w_menu, w_click>>)) >>

\* the translator has rewritten the only binding, tail for hand h, to cur
Translated(profile, h, tail) ==
    /\ bind.pc = "check"
    /\ bind.profile = profile
    /\ Requested = HandPath(h, tail)

\* what C14 expects of Knuckles: requested path, rewritten path
KnucklesExpected ==
    { <<PathOf(<<w_input, w_grip, w_click>>), PathOf(<<w_input, w_squeeze, w_force>>)>>,
      <<PathOf(<<w_input, w_squeeze, w_click>>), PathOf(<<w_input, w_squeeze, w_force>>)>>,
      <<PathOf(<<w_input, w_grip, w_grab>>), PathOf(<<w_input, w_squeeze, w_force>>)>>,
      <<PathOf(<<w_input, w_squeeze, w_grab>>), PathOf(<<w_input, w_squeeze, w_force>>)>>,
      <<PathOf(<<w_input, w_grip, w_pull>>), PathOf(<<w_input, w_squeeze, w_value>>)>>,
      <<PathOf(<<w_input, w_squeeze, w_pull>>), PathOf(<<w_input, w_squeeze, w_value>>)>>,
      <<PathOf(<<w_input, w_trackpad, w_click>>), PathOf(<<w_input, w_trackpad, w_force>>)>> }

\* C14: under the Knuckles table, for either hand, input/grip/click,
\* input/squeeze/click, input/grip/grab and input/squeeze/grab become
\* input/squeeze/force, input/grip/pull and input/squeeze/pull become
\* input/squeeze/value, input/trackpad/click becomes input/trackpad/force,
\* and each of these results is a legal path of Knuckles.
C14_KnucklesTranslations ==
    \A h \in Hands, e \in KnucklesExpected :
        Translated("Knuckles", h, e[1])
            => /\ bind.cur = HandPath(h, e[2])
               /\ bind.cur \in Knuckles_legal_paths

\* input/grip/grab of the right hand went through input/grip -> input/squeeze
\* and squeeze/grab -> squeeze/force
C14_Witness ==
    /\ Translated("Knuckles", "Right", PathOf(<<w_input, w_grip, w_grab>>))
    /\ bind.cur = HandPath("Right", PathOf(<<w_input, w_squeeze, w_force>>))
    /\ bind.k = 5

\* what C15 expects of Touch: requested path, rewritten path, and the rule
\* of the table that rewrites it
TouchExpected ==
    { <<PathOf(<<w_input, w_trigger, w_click>>), PathOf(<<w_input, w_trigger, w_value>>), 1>>,
      <<PathOf(<<w_input, w_grip, w_click>>), PathOf(<<w_input, w_squeeze, w_value>>), 2>>,
      <<PathOf(<<w_input, w_trigger, w_pull>>), PathOf(<<w_input, w_trigger, w_value>>), 3>>,
      <<PathOf(<<w_input, w_application_menu, w_click>>), PathOf(<<w_input, w_menu, w_click>>), 5>>,
      <<PathOf(<<w_input, w_joystick, w_click>>), PathOf(<<w_input, w_thumbstick, w_click>>), 6>> }

\* the buttons the claim puts on one hand only
TouchLeftOnly ==
    { PathOf(<<w_input, w_x, w_click>>), PathOf(<<w_input, w_x, w_touch>>),
      PathOf(<<w_input, w_y, w_click>>), PathOf(<<w_input, w_y, w_touch>>),
      PathOf(<<w_input, w_menu, w_click>>) }
TouchRightOnly ==
    { PathOf(<<w_input, w_a, w_click>>), PathOf(<<w_input, w_a, w_touch>>),
      PathOf(<<w_input, w_b, w_click>>), PathOf(<<w_input, w_b, w_touch>>) }

Suggested == { bind.suggested[n] : n \in 1..Len(bind.suggested) }

\* C15: under the Touch table trigger/click and trigger/pull become
\* trigger/value, grip/click becomes squeeze/value, application_menu becomes
\* menu and joystick becomes thumbstick, the pass ending at the rule that
\* matched.  A binding is suggested only for a hand on which its rewritten
\* path is legal: x, y and menu/click are suggested for the left hand only,
\* a and b for the right hand only, and application_menu/click is suggested
\* as /user/hand/left/input/menu/click and never for the right hand.
C15_TouchTranslations ==
    bind.profile = "Touch" =>
        /\ \A h \in Hands, e \in TouchExpected :
             Translated("Touch", h, e[1])
                 => bind.cur = HandPath(h, e[2]) /\ bind.k = e[3] + 1
        /\ \A p \in TouchLeftOnly : HandPath("Right", p) \notin Suggested
        /\ \A p \in TouchRightOnly : HandPath("Left", p) \notin Suggested
        /\ \A h \in Hands :
             (bind.pc = "done"
                /\ bind.reqs = << HandPath(h, PathOf(<<w_input, w_application_menu, w_click>>)) >>)
                 => bind.suggested
                      = IF h = "Left"
                        THEN << HandPath("Left", PathOf(<<w_input, w_menu, w_click>>)) >>
                        ELSE << >>

\* application_menu/click of the right hand was rewritten to menu/click and
\* was not suggested
C15_Witness ==
    /\ bind.pc = "done"
    /\ bind.profile = "Touch"
    /\ bind.reqs = << HandPath("Right", PathOf(<<w_input, w_application_menu, w_click>>)) >>
    /\ bind.suggested = << >>
    /\ Len(bind.errors) = 1
    /\ bind.errors[1].path = HandPath("Right", PathOf(<<w_input, w_menu, w_click>>))

\* what C16 expects of the wands: requested path, rewritten path
ViveExpected ==
    { <<PathOf(<<w_input, w_grip, w_click>>), PathOf(<<w_input, w_squeeze, w_click>>)>>,
      <<PathOf(<<w_input, w_grip, w_pose>>), PathOf(<<w_input, w_squeeze, w_pose>>)>>,
      <<PathOf(<<w_input, w_trigger, w_pull>>), PathOf(<<w_input, w_trigger, w_value>>)>>,
      <<PathOf(<<w_input, w_trigger, w_click>>), PathOf(<<w_input, w_trigger, w_value>>)>>,
      <<PathOf(<<w_input, w_application_menu, w_click>>), PathOf(<<w_input, w_menu, w_click>>)>>,
      <<PathOf(<<w_input, w_trackpad, w_click>>), PathOf(<<w_input, w_trackpad, w_click>>)>>,
      <<PathOf(<<w_output, w_haptic>>), PathOf(<<w_output, w_haptic>>)>> }

\* the rewritten paths of all the bindings of the action set
TranslatedRequests ==
    { translate(bind.profile, bind.reqs[j]) : j \in 1..Len(bind.reqs) }

\* the rewrites of the wand table: grip becomes squeeze and nothing else is
\* applied, trigger/pull and trigger/click become trigger/value,
\* application_menu becomes menu, trackpad and haptic paths are unchanged,
\* and trigger/click is never suggested
ViveRewrites ==
    /\ \A h \in Hands, e \in ViveExpected :
         Translated("ViveWands", h, e[1]) => bind.cur = HandPath(h, e[2])
    /\ \A h \in Hands :
         HandPath(h, PathOf(<<w_input, w_trigger, w_click>>)) \notin Suggested

\* C16: under the wand table the bindings suggested for an action are
\* exactly the rewritten requested paths, with the rewrites above.
C16_SuggestedIsTranslated ==
    bind.profile = "ViveWands" =>
        /\ bind.pc = "done" => Suggested = TranslatedRequests
        /\ ViveRewrites

\* C16, amended: under the wand table the bindings suggested for an action
\* are exactly the rewritten requested paths that are legal paths of the
\* wands, with the rewrites above.
C16_SuggestedIsLegalTranslated ==
    bind.profile = "ViveWands" =>
        /\ bind.pc = "done"
             => Suggested = TranslatedRequests \cap ViveWands_legal_paths
        /\ ViveRewrites

\* an action bound to trigger/click of the right hand and to a/click of the
\* right hand: trigger/value is suggested, a/click is not
C16_Witness ==
    /\ bind.pc = "done"
    /\ bind.profile = "ViveWands"
    /\ bind.reqs = << HandPath("Right", PathOf(<<w_input, w_trigger, w_click>>)),
                      HandPath("Right", PathOf(<<w_input, w_a, w_click>>)) >>
    /\ bind.suggested = << HandPath("Right", PathOf(<<w_input, w_trigger, w_value>>)) >>

-----------------------------------------------------------------------------
(* Properties of the property queries *)

\* the answers of the four typed queries for index i, whatever the
\* property, the buffer and the caller's err
Answers(devs, i) ==
    [kind \in { "GetString", "GetInt32", "GetFloat", "GetBool" } |->
       CASE kind = "GetString" ->
              [a \in StringProps \X BufSizes \X ErrIns |->
                  GetStringTrackedDeviceProperty(devs, i, a[1], a[2], a[3])]
         [] kind = "GetInt32" ->
              [a \in Int32Props \X ErrIns |->
                  GetInt32TrackedDeviceProperty(devs, i, a[1], a[2])]
         [] kind = "GetFloat" ->
              [a \in FloatProps \X ErrIns |->
                  GetFloatTrackedDeviceProperty(devs, i, a[1], a[2])]
         [] kind = "GetBool" ->
              [a \in BoolProps \X ErrIns |->
                  GetBoolTrackedDeviceProperty(devs, i, a[1], a[2])]]

TypedQueries == { "GetString", "GetInt32", "GetFloat", "GetBool" }

\* C17: once a device's connection flag is false, every string, int32, float
\* and bool property query for its index reports InvalidDevice (through a
\* non-null err) with a zero or empty result, and the disconnect changes no
\* answer of any query addressed to another index whose device is connected.
C17_DisconnectedIsInvalidDevice ==
    /\ [](  (/\ last.op \in TypedQueries
             /\ last.arg < Len(devices)
             /\ ~devices[last.arg + 1].connected)
          => /\ last.err0 # "Null" => last.err = "InvalidDevice"
             /\ last.ret = IF last.op = "GetBool" THEN FALSE ELSE 0
             /\ last.buf = << >> )
    /\ [][ (last'.op = "set_connected" /\ ~last'.val)
             => \A j \in 0..(Len(devices) - 1) :
                  (j # last'.arg /\ devices[j + 1].connected)
                     => Answers(devices', j) = Answers(devices, j) ]_vars

\* the tracker at index 3, connected by discovery, was disconnected, and a
\* query for its serial number was answered
C17_Witness ==
    /\ Len(devices) > RESERVED_DEVICE_INDECES
    /\ ~devices[RESERVED_DEVICE_INDECES + 1].connected
    /\ devices[1].connected
    /\ last.op = "GetString"
    /\ last.arg = RESERVED_DEVICE_INDECES
    /\ last.prop = "SerialNumber_String"
    /\ last.err0 = "Success"
    /\ last.err = "InvalidDevice"

\* C18: GetUint64TrackedDeviceProperty reports InvalidDevice for an index
\* with no device or with a device that is not connected, and
\* UnknownProperty only for a connected device.
C18_Uint64InvalidDevice ==
    (last.op = "GetUint64" /\ last.err0 # "Null")
        => last.err = IF IsTrackedDeviceConnected(devices, last.arg)
                      THEN "UnknownProperty"
                      ELSE "InvalidDevice"

-----------------------------------------------------------------------------
(* Properties of the devices *)

\* C19: a generic tracker's get_pose never panics: when relate fails it
\* returns no pose, and otherwise the pose and velocity of its space.
C19_GetPoseNeverPanics ==
    last.op = "get_pose" =>
        IF last.relation.ok
        THEN /\ last.ret = "Some"
             /\ last.pose.space = devices[last.arg + 1].space
             /\ last.pose.origin = last.origin
        ELSE last.ret = "None"

\* where get_pose does as claimed: relate succeeded, the pose is returned
GetPoseOfRelated ==
    (last.op = "get_pose" /\ last.relation.ok)
        => /\ last.ret = "Some"
           /\ last.pose.space = devices[last.arg + 1].space
           /\ last.pose.origin = last.origin

\* C20: get_controller(hand), for the left or the right hand, returns the
\* controller at index 1 or 2 in every registry built with the full
\* configuration, and fails only in a registry built without the controller
\* slots, there with a panic and never with a read outside the registry.
C20_GetControllerDefined ==
    (last.op = "get_controller" /\ last.hand \in { "LeftHand", "RightHand" })
        => /\ ~last.oob
           /\ IF ctor = "new"
              THEN /\ last.ret = "Some"
                   /\ last.val = devices[HandIndex(last.hand) + 1]
                   /\ last.val.variant = "Controller"
                   /\ last.val.type = last.hand
                   /\ last.val.index = HandIndex(last.hand)
              ELSE last.ret = "Panic"

\* where get_controller does as claimed: in the full registry it returns the
\* controller of the hand, from inside the registry
GetControllerOfFullRegistry ==
    (last.op = "get_controller" /\ last.hand \in { "LeftHand", "RightHand" }
       /\ ctor = "new")
        => /\ ~last.oob
           /\ last.ret = "Some"
           /\ last.val = devices[HandIndex(last.hand) + 1]
           /\ last.val.variant = "Controller"
           /\ last.val.type = last.hand

-----------------------------------------------------------------------------
(* Construction of generic trackers by a caller *)

\* the indices XrGenericTracker::new is tried with: the reserved ones and two
\* above them
CtorIndices == 0..(RESERVED_DEVICE_INDECES + 1)

\* XrGenericTracker::new(index, dev): a failed assertion panics, otherwise the
\* tracker is returned to the caller
NewGenericTracker ==
    /\ Running /\ Quiet
    /\ \E index \in CtorIndices, id \in XdevIds :
         LET dev == XdevUniverse[id]
         IN last' = IF XrGenericTracker_new_asserts(index, dev)
                    THEN [NoCall EXCEPT !.op = "new_tracker", !.ret = "Some",
                                        !.arg = index, !.xs = << id >>,
                                        !.val = XrGenericTracker_new(index, dev)]
                    ELSE [NoCall EXCEPT !.op = "new_tracker", !.ret = "Panic",
                                        !.arg = index, !.xs = << id >>]
    /\ UNCHANGED <<devices, ctor, ext>>
    /\ ConcUnchanged

\* TrackedDeviceList::push of the tracker the constructor returned
PushConstructed ==
    /\ Running /\ Quiet
    /\ last.op = "new_tracker" /\ last.ret = "Some"
    /\ Len(devices) < MaxPush
    /\ devices' = push(devices, last.val)
    /\ last' = [NoCall EXCEPT !.op = "push"]
    /\ UNCHANGED <<ctor, ext>>
    /\ ConcUnchanged

NextCtor ==
    \/ NewGenericTracker
    \/ PushConstructed
    \/ CreateGenericTrackers

SpecCtor == Init /\ [][NextCtor]_vars

-----------------------------------------------------------------------------
(* Properties of the tracker constructor *)

\* C21: constructing a generic tracker with an index below
\* RESERVED_DEVICE_INDECES or from an external device without a space panics,
\* and no generic tracker in the registry has a reserved index or no space.
C21_ConstructionAborts ==
    /\ (last.op = "new_tracker"
          /\ (last.arg < RESERVED_DEVICE_INDECES
                \/ XdevUniverse[last.xs[1]].space = NoSpace))
         => last.ret = "Panic"
    /\ \A i \in 1..Len(devices) :
         devices[i].variant = "GenericTracker"
            => /\ devices[i].index >= RESERVED_DEVICE_INDECES
               /\ devices[i].space # NoSpace

\* a constructor call with a reserved index has panicked while the registry
\* holds a tracker that an earlier call constructed
C21_Witness ==
    /\ last.op = "new_tracker" /\ last.ret = "Panic"
    /\ last.arg < RESERVED_DEVICE_INDECES
    /\ XdevUniverse[last.xs[1]].space # NoSpace
    /\ \E i \in 1..Len(devices) : devices[i].variant = "GenericTracker"

-----------------------------------------------------------------------------
(* Lookups in the profile table *)

\* the names profile_from_name is asked for: the registered paths and strings
\* that differ from one of them in case, by a prefix, by a suffix or wholly
ProfileNames ==
    { ProfileList[i].path : i \in 1..Len(ProfileList) }
    \cup { "",
           "/interaction_profiles/htc/vive_controller/",
           "/interaction_profiles/htc/vive",
           "/interaction_profiles/HTC/vive_controller",
           "interaction_profiles/valve/index_controller",
           "/interaction_profiles/oculus/touch_controller_v2",
           "/interaction_profiles/khr/simple",
           "/interaction_profiles/htc/vive_tracker",
           "/interaction_profiles/microsoft/motion_controller" }

\* Profiles::get().profile_from_name(name)
ProfileFromName ==
    /\ Running /\ Quiet
    /\ \E name \in ProfileNames :
         last' = [op |-> "profile_from_name", ret |-> profile_from_name(name),
                  name |-> name, arg |-> 0, val |-> NoDevice,
                  enum_ok |-> TRUE, xs |-> << >>, rep |-> FALSE, pre_len |-> 0]
    /\ UNCHANGED <<devices, ctor, ext>>
    /\ ConcUnchanged

\* the lookups next to the operations that use the table
NextProfiles ==
    \/ ProfileFromName
    \/ NewGenericTracker
    \/ PushConstructed
    \/ CreateGenericTrackers

SpecProfiles == Init /\ [][NextProfiles]_vars

-----------------------------------------------------------------------------
(* Properties of the profile table *)

\* C22: profile_from_name(name) returns the registered profile whose path
\* equals name and None for every other string; the five registered paths
\* are pairwise distinct, so the path of each registered profile finds that
\* profile itself.
C22_ExactLookup ==
    /\ \A i, j \in 1..Len(ProfileList) :
         i # j => /\ ProfileList[i].path # ProfileList[j].path
                  /\ ProfileList[i].profile # ProfileList[j].profile
    /\ last.op = "profile_from_name"
         => /\ \A i \in 1..Len(ProfileList) :
                 last.name = ProfileList[i].path
                    <=> last.ret = ProfileList[i].profile
            /\ (\A i \in 1..Len(ProfileList) : last.name # ProfileList[i].path)
                 <=> last.ret = NoProfile

\* the path of the fourth entry, which shares its controller type with the
\* first, has found the fourth entry
C22_Witness ==
    /\ last.op = "profile_from_name"
    /\ last.name = ProfileList[4].path
    /\ last.ret = "SimpleController"
    /\ ProfileList[4].ctype = ProfileList[1].ctype

-----------------------------------------------------------------------------
(* Properties of the string query *)

\* the last call was GetStringTrackedDeviceProperty for a connected device
\* and a property that has a value
StringQueryOfValue ==
    /\ last.op = "GetString"
    /\ last.arg < Len(devices)
    /\ devices[last.arg + 1].connected
    /\ StringValue(devices[last.arg + 1], last.prop) # << >>

\* C23: for a connected device and a property with a value v, a call with a
\* null or too-small buffer writes nothing, sets BufferTooSmall and returns
\* L = Len(v) + 1 > 0; a call with at least L bytes copies v and its NUL,
\* reports Success and returns L; the call that follows a too-small one with
\* a buffer of the returned length succeeds with the same length; a property
\* with no value returns 0.
C23_TwoCallProtocol ==
    /\ [](StringQueryOfValue
            => LET v == StringValue(devices[last.arg + 1], last.prop)
                   L == Len(v) + 1
               IN /\ last.ret = L /\ L > 0
                  /\ IF last.size < L
                     THEN /\ last.buf = << >>
                          /\ last.err0 # "Null" => last.err = "BufferTooSmall"
                     ELSE /\ last.buf = v \o s_NUL
                          /\ last.err0 # "Null" => last.err = "Success")
    /\ []((/\ last.op = "GetString"
           /\ last.arg < Len(devices)
           /\ devices[last.arg + 1].connected
           /\ StringValue(devices[last.arg + 1], last.prop) = << >>)
            => last.ret = 0 /\ last.buf = << >>)
    /\ [][ (/\ last.op = "GetString" /\ last'.op = "GetString"
            /\ last.ret > 0 /\ last.err = "BufferTooSmall"
            /\ last'.arg = last.arg /\ last'.prop = last.prop
            /\ last'.err0 = last.err
            /\ last'.size >= last.ret)
             => /\ last'.ret = last.ret
                /\ last'.err = "Success"
                /\ Len(last'.buf) = last.ret
                /\ last'.buf[last.ret] = "NUL" ]_vars

\* the second call of the protocol: the caller's err still holds the
\* BufferTooSmall of the first call, the buffer has exactly the length the
\* first call returned, and the HMD's value has been copied
C23_Witness ==
    /\ StringQueryOfValue
    /\ last.arg = 0 /\ last.prop = "SerialNumber_String"
    /\ last.err0 = "BufferTooSmall" /\ last.err = "Success"
    /\ last.size = Len(s_HMD) + 1 /\ last.ret = last.size
    /\ last.buf = s_HMD \o s_NUL

-----------------------------------------------------------------------------
(* Connection events: System::PollNextEvent, run as one call *)

\* vr::EVREventType of the event written for current_state
EventType(current_state) ==
    IF current_state THEN "TrackedDeviceActivated" ELSE "TrackedDeviceDeactivated"

\* the caller's event when the call wrote nothing to it
NoEvent == [eventType |-> "None", trackedDeviceIndex |-> 0]

\* the closure that leaves last_state as it was
device_state_event_no_store(devs, i, current_state) ==
    [devices |-> devs,
     event |-> [eventType |-> EventType(current_state),
                trackedDeviceIndex |-> devs[i].index]]

\* the closure device_state_event of PollNextEvent, for the device at
\* position i: the store to last_state and the writes to the event
device_state_event(devs, i, current_state) ==
    [devices |-> [devs EXCEPT ![i].last_connected_state = current_state],
     event |-> [eventType |-> EventType(current_state),
                trackedDeviceIndex |-> devs[i].index]]

\* the loop run from the end of the registry to its start
RECURSIVE PollBackwards(_, _)
PollBackwards(devs, i) ==
    IF i < 1 THEN [ret |-> FALSE, devices |-> devs, event |-> NoEvent]
    ELSE IF devs[i].connected # devs[i].last_connected_state
         THEN LET r == device_state_event(devs, i, devs[i].connected)
              IN [ret |-> TRUE, devices |-> r.devices, event |-> r.event]
         ELSE PollBackwards(devs, i - 1)

PollNextEvent_backwards(devs) == PollBackwards(devs, Len(devs))

\* the for loop of PollNextEvent from position i on: the first device whose
\* connected flag differs from its last_connected_state is reported
RECURSIVE PollFrom(_, _)
PollFrom(devs, i) ==
    IF i > Len(devs) THEN [ret |-> FALSE, devices |-> devs, event |-> NoEvent]
    ELSE IF devs[i].connected # devs[i].last_connected_state
         THEN LET r == device_state_event(devs, i, devs[i].connected)
              IN [ret |-> TRUE, devices |-> r.devices, event |-> r.event]
         ELSE PollFrom(devs, i + 1)

\* System::PollNextEvent with no other thread at work
PollNextEvent(devs) == PollFrom(devs, 1)

\* a call of PollNextEvent
PollEvent ==
    /\ Up
    /\ LET r == PollNextEvent(devices)
       IN /\ devices' = r.devices
          /\ last' = [op |-> "PollNextEvent", ret |-> r.ret, event |-> r.event]
    /\ SysUnchanged

NextPoll ==
    \/ SetConnected
    \/ PollEvent

SpecPoll == InitSys /\ [][NextPoll]_vars

-----------------------------------------------------------------------------
(* Properties of the connection events *)

\* the positions of the devices whose connected flag differs from the state
\* last reported for them
Pending(devs) ==
    { i \in 1..Len(devs) : devs[i].connected # devs[i].last_connected_state }

\* C24: a PollNextEvent call writes at most one event: when some device's
\* connected flag differs from its last-reported state, it reports the one
\* with the lowest index among them, Activated if connected and Deactivated
\* if not, with that device's index, sets that device's last-reported state
\* to the reported value and nothing else, and returns true; when no device
\* differs it returns false, writes no event and changes no state.
C24_OneEventPerCall ==
    [][ last'.op = "PollNextEvent"
          => IF Pending(devices) = {}
             THEN /\ last'.ret = FALSE
                  /\ last'.event = NoEvent
                  /\ devices' = devices
             ELSE \E i \in Pending(devices) :
                    /\ \A j \in Pending(devices) :
                         devices[i].index <= devices[j].index
                    /\ last'.ret = TRUE
                    /\ last'.event.eventType =
                         IF devices[i].connected THEN "TrackedDeviceActivated"
                                                 ELSE "TrackedDeviceDeactivated"
                    /\ last'.event.trackedDeviceIndex = devices[i].index
                    /\ devices' = [devices EXCEPT
                                     ![i].last_connected_state =
                                         devices[i].connected] ]_vars

\* the left controller's connection has been reported while the right
\* controller's is still to be reported
C24_Witness ==
    /\ last.op = "PollNextEvent" /\ last.ret = TRUE
    /\ last.event = [eventType |-> "TrackedDeviceActivated",
                     trackedDeviceIndex |-> 1]
    /\ Pending(devices) = { 3 }
    /\ devices[2].last_connected_state

\* PollNextEvent is called again and again
SpecPollLive == InitSys /\ [][NextPoll]_vars /\ WF_vars(PollEvent)

\* a step that changes the connected flag of some device
FlagChange ==
    \E i \in 1..Len(devices) : devices'[i].connected # devices[i].connected

\* C25: when the connected flags stop changing, repeated PollNextEvent calls
\* lead to a state, kept for ever, in which every device's last-reported
\* state equals its connected flag and the calls return false; each call
\* that returns true takes one device out of the pending ones, so at most
\* N = len() calls return true on the way.
C25_EventuallyAllReported ==
    /\ (<>[][~FlagChange]_vars)
          => <>[](/\ Pending(devices) = {}
                  /\ last.op = "PollNextEvent" => last.ret = FALSE)
    /\ [][ (last'.op = "PollNextEvent" /\ last'.ret = TRUE /\ last' # last)
             => /\ Pending(devices') \subseteq Pending(devices)
                /\ Cardinality(Pending(devices'))
                     = Cardinality(Pending(devices)) - 1 ]_vars
    /\ [](Cardinality(Pending(devices)) <= Len(devices))

\* three changes were pending in the full registry with a tracker, and the
\* calls have reported all of them: the last one returned false
C25_Witness ==
    /\ Len(devices) = RESERVED_DEVICE_INDECES + 1
    /\ \A i \in 1..Len(devices) :
         devices[i].connected /\ devices[i].last_connected_state
    /\ last.op = "PollNextEvent" /\ last.ret = FALSE

-----------------------------------------------------------------------------
(* PollNextEvent called by several threads, one step per load and store.   *)
(* The calls hold the registry's read lock, which they share; the flags    *)
(* are atomics that set_connected stores to without the lock.              *)

PollUnchanged == UNCHANGED <<ctor, ext, last, wpc, wpre, wpend, seen, bind>>

\* the thread's call moves on to where and what
Moved(p, pc, i, connected, current_state) ==
    [poll EXCEPT ![p] = [pc |-> pc, i |-> i, connected |-> connected,
                         current_state |-> current_state]]

\* let devices = self.openxr.devices.read().unwrap(); the loop starts
PAcquire(p) ==
    /\ poll[p].pc = "idle"
    /\ CanRead(lock)
    /\ lock' = [lock EXCEPT !.readers = @ \cup {p}]
    /\ poll' = Moved(p, "iter", 1, FALSE, FALSE)
    /\ UNCHANGED <<devices, events>>
    /\ PollUnchanged

\* device.connected(), the left operand of the comparison
PConnected(p) ==
    /\ poll[p].pc = "iter"
    /\ poll[p].i <= Len(devices)
    /\ poll' = Moved(p, "last", poll[p].i, devices[poll[p].i].connected, FALSE)
    /\ UNCHANGED <<devices, events, lock>>
    /\ PollUnchanged

\* device.last_connected_state().load(..) and the comparison: into the
\* branch, or on to the next device
PLast(p) ==
    /\ poll[p].pc = "last"
    /\ poll' = IF poll[p].connected # devices[poll[p].i].last_connected_state
               THEN Moved(p, "current", poll[p].i, poll[p].connected, FALSE)
               ELSE Moved(p, "iter", poll[p].i + 1, FALSE, FALSE)
    /\ UNCHANGED <<devices, events, lock>>
    /\ PollUnchanged

\* device.connected() once more, the first argument of device_state_event
PCurrent(p) ==
    /\ poll[p].pc = "current"
    /\ poll' = Moved(p, "store", poll[p].i, poll[p].connected,
                     devices[poll[p].i].connected)
    /\ UNCHANGED <<devices, events, lock>>
    /\ PollUnchanged

\* last_state.store(current_state, Ordering::Relaxed)
PStore(p) ==
    /\ poll[p].pc = "store"
    /\ devices' = [devices EXCEPT
                     ![poll[p].i].last_connected_state = poll[p].current_state]
    /\ poll' = [poll EXCEPT ![p].pc = "write"]
    /\ UNCHANGED <<events, lock>>
    /\ PollUnchanged

\* the event is written to the caller, the guard is dropped, return true
PWrite(p) ==
    /\ poll[p].pc = "write"
    /\ events' = [events EXCEPT ![poll[p].i] = EventType(poll[p].current_state)]
    /\ lock' = [lock EXCEPT !.readers = @ \ {p}]
    /\ poll' = [poll EXCEPT ![p] = Returned]
    /\ UNCHANGED devices
    /\ PollUnchanged

\* the loop is over: the guard is dropped, return false
PReturnFalse(p) ==
    /\ poll[p].pc = "iter"
    /\ poll[p].i > Len(devices)
    /\ lock' = [lock EXCEPT !.readers = @ \ {p}]
    /\ poll' = [poll EXCEPT ![p] = Returned]
    /\ UNCHANGED <<devices, events>>
    /\ PollUnchanged

\* BaseDevice::set_connected by another thread: the flag of a device changes
StoreConnected ==
    /\ \E i \in 1..Len(devices) :
         devices' = [devices EXCEPT ![i].connected = ~devices[i].connected]
    /\ UNCHANGED <<poll, events, lock>>
    /\ PollUnchanged

\* the registries the calls run on, with no event written yet
InitPollConc ==
    /\ devices \in { TrackedDeviceList_default, TrackedDeviceList_new }
    /\ ctor = IF devices = TrackedDeviceList_default THEN "default" ELSE "new"
    /\ ext = FALSE
    /\ last = NoCall
    /\ lock = [writer |-> FALSE, readers |-> {}]
    /\ wpc = "idle"
    /\ wpre = << >>
    /\ wpend = << >>
    /\ seen = [r \in Readers |-> NoView]
    /\ bind = NoBind
    /\ poll = NoPoll
    /\ events = [i \in 1..Len(devices) |-> "None"]

NextPollConc ==
    \/ StoreConnected
    \/ \E p \in Pollers :
         \/ PAcquire(p)
         \/ PConnected(p)
         \/ PLast(p)
         \/ PCurrent(p)
         \/ PStore(p)
         \/ PWrite(p)
         \/ PReturnFalse(p)

SpecPollConc == InitPollConc /\ [][NextPollConc]_vars

\* C26: under every interleaving of PollNextEvent calls with each other and
\* with changes of a device's connected flag, the events written for one
\* device alternate, Activated first: an event written for a device differs
\* in type from the event written for it before, so no transition is
\* reported twice.
C26_EventsAlternate ==
    [][ \A p \in Pollers :
          (poll[p].pc = "write" /\ poll'[p].pc = "idle")
             => LET written == EventType(poll[p].current_state)
                    before == events[poll[p].i]
                IN IF before = "None" THEN written = "TrackedDeviceActivated"
                                      ELSE written # before ]_vars

-----------------------------------------------------------------------------
(* Properties of the indices discovery assigns *)

\* C27: create_generic_trackers called on a registry as a constructor built
\* it, the single HMD or the HMD and both controllers, never trips the
\* reserved-index assertion of XrGenericTracker::new: the call does not
\* panic, and every tracker it adds has an index of at least 3.
C27_NeverTripsAssertion ==
    [][ (/\ last'.op = "create"
         /\ devices \in { TrackedDeviceList_default, TrackedDeviceList_new })
          => /\ last'.ret # "Panic"
             /\ \A i \in 1..Len(devices') :
                  devices'[i].variant = "GenericTracker"
                     => devices'[i].index >= RESERVED_DEVICE_INDECES ]_vars

-----------------------------------------------------------------------------
(* Discovery with many devices *)

\* vr::k_unMaxTrackedDeviceCount of the OpenVR interface
k_unMaxTrackedDeviceCount == 64

\* the cap generic_tracker.rs declares for the trackers
MAX_GENERIC_TRACKERS == k_unMaxTrackedDeviceCount - RESERVED_DEVICE_INDECES

\* the most devices the extension enumerates at once
MaxEnumerated == 62

Digits == <<"0","1","2","3","4","5","6","7","8","9">>

\* the k-th of the trackers the runtime knows: a space, a name that passes
\* the filter and a serial of its own
ManyXdev(k) ==
    [id |-> k, space |-> "space1", name |-> ViveTrackerName,
     serial |-> <<"L","H","R","-", Digits[(k \div 10) + 1], Digits[(k % 10) + 1]>>]

\* enumerate_xdevs returning n such devices
ManyXdevs(n) == [k \in 1..n |-> ManyXdev(k)]

\* create_generic_trackers when the extension enumerates n trackers
DiscoverMany ==
    /\ Running /\ Quiet
    /\ \E n \in 0..MaxEnumerated :
         LET r == create_generic_trackers(
                      devices, ext, [ok |-> TRUE, xdevs |-> ManyXdevs(n)])
         IN /\ devices' = r.devices
            /\ last' = [NoCall EXCEPT !.op = "create", !.ret = r.ret, !.arg = n]
    /\ UNCHANGED <<ctor, ext>>
    /\ ConcUnchanged

NextMany ==
    \/ DiscoverMany
    \/ GetDevice

SpecMany == Init /\ [][NextMany]_vars

IsGenericTracker(device) == device.variant = "GenericTracker"

\* C28: after any sequence of create_generic_trackers calls the registry
\* holds at most MAX_GENERIC_TRACKERS generic trackers, and every device
\* index is below k_unMaxTrackedDeviceCount.
C28_TrackersCapped ==
    /\ Len(SelectSeq(devices, IsGenericTracker)) <= MAX_GENERIC_TRACKERS
    /\ \A i \in 1..Len(devices) : devices[i].index < k_unMaxTrackedDeviceCount

====
